---- MODULE Spec2Model ----
(***************************************************************************)
(* LivePresenter: the page state store (StateManager), the navigation      *)
(* controller, the PDF render surface, and the client tools exposed to the *)
(* voice agent, as one state machine.                                      *)
(***************************************************************************)
EXTENDS Integers, Sequences, FiniteSets, TLC

VARIABLES
  phase,        \* where initPresentation stands: loading, loadFailed, firstRender, ready, initFailed
  clientTools,  \* window.clientTools: "stub" or "live"
  totalPages,   \* StateManager._totalPages (0 while no store exists)
  currentPage,  \* StateManager._currentPage (0 while no store exists)
  listeners,    \* StateManager._listeners.get('pageChanged'), in Set insertion order
  regRank,      \* for each registered callback, its rank by time of registration (0: not registered)
  renders,      \* for each page, the renderPage calls of the render listener not settled yet
  canvasPage,   \* the page last drawn on the canvas (0: none)
  renderErrors, \* whether a render failure has been caught and logged
  textReqs,     \* for each page, the getPageText tool calls awaiting its text
  last,         \* the most recent call: operation, argument, page before, result, events delivered
  ui,           \* what the presenters show: page counter, disabled buttons, highlighted sidebar items
  held,         \* the tool object an outside caller read from window.clientTools and kept: none, stub, live
  navTextReqs,  \* for each page, the NavigationController.getPageText calls awaiting its text
  textOut,      \* the most recent outcome of PDFRenderer.getPageText: caller, page, success
  conversation, \* TranscriptManager._conversation: unbound, or the send methods the session exposes
  history,      \* TranscriptManager._history
  display,      \* ChatInterface._messages
  sent,         \* the send methods invoked on the session, with their text
  now,          \* the clock read by new Date()
  lastChat,     \* the most recent TranscriptManager call: operation, argument, sizes before, outcome
  voice         \* VoiceControls, the voice sessions it has started and the session the router holds

\* the variables of the page store, the render surface and the tools
navVars == <<phase, clientTools, totalPages, currentPage, listeners, regRank, renders, canvasPage, renderErrors, textReqs, last, ui>>

\* the variables of the message router
chatVars == <<conversation, history, display, sent, now, lastChat>>

\* what the actions of the page store leave alone
otherVars == <<held, navTextReqs, textOut, chatVars, voice>>

vars == <<navVars, held, navTextReqs, textOut, chatVars, voice>>

----------------------------------------------------------------------------
(* Bounds of the model *)

MaxPages == 3
MaxRenders == 2
MaxTextReqs == 1
MaxMessages == 2
MaxClock == 2
MaxSessions == 2

----------------------------------------------------------------------------
(* JavaScript values that reach the page-number parameters.  A number is    *)
(* k + h/2 (h = 0: an integer), a string is a sequence of characters.       *)

Num(k)  == [t |-> "number", k |-> k, h |-> 0, s |-> <<>>]
Frac(k) == [t |-> "number", k |-> k, h |-> 1, s |-> <<>>]
NaN     == [t |-> "nan", k |-> 0, h |-> 0, s |-> <<>>]
Str(s)  == [t |-> "string", k |-> 0, h |-> 0, s |-> s]
Null    == [t |-> "null", k |-> 0, h |-> 0, s |-> <<>>]
Undef   == [t |-> "undefined", k |-> 0, h |-> 0, s |-> <<>>]
Bool(b) == [t |-> "boolean", k |-> IF b THEN 1 ELSE 0, h |-> 0, s |-> <<>>]

Digits == {"0", "1", "2", "3", "4", "5", "6", "7", "8", "9"}

DigitVal(c) ==
  CASE c = "0" -> 0 [] c = "1" -> 1 [] c = "2" -> 2 [] c = "3" -> 3
    [] c = "4" -> 4 [] c = "5" -> 5 [] c = "6" -> 6 [] c = "7" -> 7
    [] c = "8" -> 8 [] OTHER -> 9

Strings == { <<"2">>, <<"a", "b">>, <<"2", "a">>, <<" ", "3">>, <<"-", "1">> }

Numbers == { Num(k) : k \in 0 .. MaxPages + 1 } \cup { Frac(0), Frac(1), Frac(MaxPages) }

Values == Numbers \cup { Str(s) : s \in Strings } \cup { NaN, Null, Undef }

\* typeof v
TypeOf(v) ==
  CASE v.t \in {"number", "nan"} -> "number"
    [] v.t = "string" -> "string"
    [] v.t \in {"null", "object"} -> "object"
    [] v.t = "boolean" -> "boolean"
    [] OTHER -> "undefined"

\* Number.isInteger(v)
NumberIsInteger(v) == v.t = "number" /\ v.h = 0

\* isNaN(v), for v a number
IsNaN(v) == v.t = "nan"

\* v < n and v > n for v a number and n an integer (false when v is NaN)
Less(v, n) == v.t = "number" /\ 2 * v.k + v.h < 2 * n
Greater(v, n) == v.t = "number" /\ 2 * v.k + v.h > 2 * n

\* the numeric prefix parseInt reads: leading blanks, a sign, then digits
RECURSIVE SkipBlanks(_)
SkipBlanks(s) == IF s # <<>> /\ Head(s) = " " THEN SkipBlanks(Tail(s)) ELSE s

RECURSIVE ReadDigits(_, _)
ReadDigits(s, acc) ==
  IF s # <<>> /\ Head(s) \in Digits
    THEN ReadDigits(Tail(s), 10 * acc + DigitVal(Head(s)))
    ELSE acc

ParseIntString(s) ==
  LET t == SkipBlanks(s)
      neg == t # <<>> /\ Head(t) = "-"
      u == IF t # <<>> /\ Head(t) \in {"-", "+"} THEN Tail(t) ELSE t
  IN IF u = <<>> \/ Head(u) \notin Digits
       THEN NaN
       ELSE Num(IF neg THEN 0 - ReadDigits(u, 0) ELSE ReadDigits(u, 0))

\* parseInt(v): the argument is converted to a string and its integer prefix read
ParseInt(v) ==
  CASE v.t = "string" -> ParseIntString(v.s)
    [] v.t = "number" -> Num(IF v.h = 1 /\ v.k < 0 THEN v.k + 1 ELSE v.k)
    [] OTHER -> NaN

----------------------------------------------------------------------------
(* Callbacks.  The application registers three anonymous closures (nobody   *)
(* holds a reference, so they can never be removed); code holding the store *)
(* may register and remove callbacks of its own.                            *)

AppListeners == {"render", "ui", "sidebar"}
Callbacks == {"cbA", "cbB"}
AllListeners == AppListeners \cup Callbacks

Range(s) == { s[i] : i \in 1 .. Len(s) }

\* a collection that puts the newest callback first
SetAddFront(s, x) == IF x \in Range(s) THEN s ELSE <<x>> \o s

\* a JavaScript Set of callbacks, as the sequence of its elements in insertion
\* order: Set.prototype.add and Set.prototype.delete
SetAdd(s, x) == IF x \in Range(s) THEN s ELSE Append(s, x)

RECURSIVE SetDelete(_, _)
SetDelete(s, x) ==
  IF s = <<>> THEN <<>>
  ELSE IF Head(s) = x THEN SetDelete(Tail(s), x)
  ELSE <<Head(s)>> \o SetDelete(Tail(s), x)

\* how many callbacks are registered
Registered == Cardinality({ l \in AllListeners : regRank[l] > 0 })

----------------------------------------------------------------------------
(* Results of calls *)

NoMsg == [text |-> "", a |-> 0, b |-> 0]
Msg1(text, a) == [text |-> text, a |-> a, b |-> 0]
Msg2(text, a, b) == [text |-> text, a |-> a, b |-> b]

NoRet == [kind |-> "none", ok |-> FALSE, msg |-> NoMsg, cur |-> 0, tot |-> 0, pageNumber |-> 0]
BoolRet(b) == [NoRet EXCEPT !.kind = "bool", !.ok = b]
Thrown == [NoRet EXCEPT !.kind = "throw"]
\* a number returned (cur holds it)
NumberRet(n) == [NoRet EXCEPT !.kind = "number", !.cur = n]
Rejected == [NoRet EXCEPT !.kind = "rejected"]
\* { success, message, currentPage, totalPages }
Result(success, msg, cur, tot) ==
  [kind |-> "object", ok |-> success, msg |-> msg, cur |-> cur, tot |-> tot, pageNumber |-> 0]

BareArg(v) == [obj |-> FALSE, pn |-> v]
ObjArg(v) == [obj |-> TRUE, pn |-> v]
NoArg == BareArg(Undef)
ToolArgs == { BareArg(v) : v \in Values } \cup { ObjArg(v) : v \in Values }

Call(op, arg, ret, log) ==
  [op |-> op, arg |-> arg, before |-> currentPage, errorsBefore |-> renderErrors,
   ret |-> ret, log |-> log]

----------------------------------------------------------------------------
(* StateManager *)

\* a forward guard that still holds on the last page
CanGoNextInclusive == currentPage <= totalPages

\* canGoNext(), canGoPrevious()
CanGoNext == currentPage < totalPages
CanGoPrevious == currentPage > 1

\* an emit without the try/catch: the first exception ends the iteration and
\* escapes to the caller
RECURSIVE EmitFromUncaught(_, _, _)
EmitFromUncaught(ls, data, T) ==
  IF ls = <<>> THEN [log |-> <<>>, raised |-> FALSE]
  ELSE LET entry == [l |-> Head(ls), data |-> data, threw |-> Head(ls) \in T]
       IN IF Head(ls) \in T
            THEN [log |-> <<entry>>, raised |-> TRUE]
            ELSE LET rest == EmitFromUncaught(Tail(ls), data, T)
                 IN [log |-> <<entry>> \o rest.log, raised |-> rest.raised]

EmitUncaught(data, T) == EmitFromUncaught(listeners, data, T)

\* _emit: listeners.forEach(callback => { try { callback(data) } catch { log } })
\* T is the set of callbacks that throw when invoked for this event.
RECURSIVE EmitFrom(_, _, _)
EmitFrom(ls, data, T) ==
  IF ls = <<>> THEN [log |-> <<>>, raised |-> FALSE]
  ELSE LET entry == [l |-> Head(ls), data |-> data, threw |-> Head(ls) \in T]
           rest == EmitFrom(Tail(ls), data, T)
       IN [log |-> <<entry>> \o rest.log, raised |-> rest.raised]

Emit(data, T) == EmitFrom(listeners, data, T)

\* setCurrentPage(pageNum): the new page, the value returned, whether an
\* exception escaped, and the events delivered
Unchanged == [page |-> currentPage, changed |-> FALSE, raised |-> FALSE, log |-> <<>>]

\* a store that emits pageChanged before it assigns the new page, so that the
\* event carries the page it read from itself: the old one
SetCurrentPageEmitFirst(pageNum, T) ==
  IF ~NumberIsInteger(pageNum) \/ Less(pageNum, 1) \/ Greater(pageNum, totalPages)
    THEN Unchanged
  ELSE IF pageNum.k = currentPage
    THEN Unchanged
  ELSE LET e == Emit([currentPage |-> currentPage,
                      previousPage |-> currentPage,
                      totalPages |-> totalPages], T)
       IN [page |-> pageNum.k, changed |-> TRUE, raised |-> e.raised, log |-> e.log]

\* a store that moves to the last page, silently, when asked for a page beyond it
SetCurrentPageClamped(pageNum, T) ==
  IF ~NumberIsInteger(pageNum) \/ Less(pageNum, 1)
    THEN Unchanged
  ELSE IF Greater(pageNum, totalPages)
    THEN [Unchanged EXCEPT !.page = totalPages]
  ELSE IF pageNum.k = currentPage
    THEN Unchanged
  ELSE LET e == Emit([currentPage |-> pageNum.k,
                      previousPage |-> currentPage,
                      totalPages |-> totalPages], T)
       IN [page |-> pageNum.k, changed |-> TRUE, raised |-> e.raised, log |-> e.log]

\* a store that does not check the upper end of the range
SetCurrentPageNoUpperBound(pageNum, T) ==
  IF ~NumberIsInteger(pageNum) \/ Less(pageNum, 1)
    THEN Unchanged
  ELSE IF pageNum.k = currentPage
    THEN Unchanged
  ELSE LET e == Emit([currentPage |-> pageNum.k,
                      previousPage |-> currentPage,
                      totalPages |-> totalPages], T)
       IN [page |-> pageNum.k, changed |-> TRUE, raised |-> e.raised, log |-> e.log]

\* a store that does not check that the page number is an integer
SetCurrentPageAnyNumber(pageNum, T) ==
  IF pageNum.t # "number" \/ Less(pageNum, 1) \/ Greater(pageNum, totalPages)
    THEN Unchanged
  ELSE IF pageNum.k = currentPage
    THEN Unchanged
  ELSE LET e == Emit([currentPage |-> pageNum.k,
                      previousPage |-> currentPage,
                      totalPages |-> totalPages], T)
       IN [page |-> pageNum.k, changed |-> TRUE, raised |-> e.raised, log |-> e.log]

\* a store that reads previousPage after it has assigned the new page
SetCurrentPageLatePrevious(pageNum, T) ==
  IF ~NumberIsInteger(pageNum) \/ Less(pageNum, 1) \/ Greater(pageNum, totalPages)
    THEN Unchanged
  ELSE IF pageNum.k = currentPage
    THEN Unchanged
  ELSE LET e == Emit([currentPage |-> pageNum.k,
                      previousPage |-> pageNum.k,
                      totalPages |-> totalPages], T)
       IN [page |-> pageNum.k, changed |-> TRUE, raised |-> e.raised, log |-> e.log]

SetCurrentPage(pageNum, T) ==
  IF ~NumberIsInteger(pageNum) \/ Less(pageNum, 1) \/ Greater(pageNum, totalPages)
    THEN Unchanged
  ELSE IF pageNum.k = currentPage
    THEN Unchanged
  ELSE LET previousPage == currentPage
           e == Emit([currentPage |-> pageNum.k,
                      previousPage |-> previousPage,
                      totalPages |-> totalPages], T)
       IN [page |-> pageNum.k, changed |-> TRUE, raised |-> e.raised, log |-> e.log]

\* _emit(data) while a registered callback r answers the first event it is
\* handed by calling setCurrentPage(q) on the store: the nested call assigns
\* the page and runs its own forEach over all listeners before r returns and
\* the outer forEach goes on with the event object it was given.  page is
\* _currentPage as the iteration reaches Head(ls).
RECURSIVE EmitFromReentrant(_, _, _, _, _)
EmitFromReentrant(ls, data, r, q, page) ==
  IF ls = <<>> THEN [log |-> <<>>, page |-> page, nested |-> FALSE]
  ELSE LET entry == [l |-> Head(ls), data |-> data, threw |-> FALSE]
           accepted == Head(ls) = r /\ q >= 1 /\ q <= totalPages /\ q # page
           inner == IF accepted
                      THEN EmitFrom(listeners, [currentPage |-> q,
                                                previousPage |-> page,
                                                totalPages |-> totalPages], {}).log
                      ELSE <<>>
           rest == EmitFromReentrant(Tail(ls), data, r, q, IF accepted THEN q ELSE page)
       IN [log |-> <<entry>> \o inner \o rest.log,
           page |-> rest.page,
           nested |-> accepted \/ rest.nested]

\* setCurrentPage(p) for a page the store accepts, with such a callback registered
SetCurrentPageReentrant(p, r, q) ==
  LET previousPage == currentPage
      e == EmitFromReentrant(listeners, [currentPage |-> p,
                                         previousPage |-> previousPage,
                                         totalPages |-> totalPages], r, q, p)
  IN [page |-> e.page, changed |-> TRUE, raised |-> FALSE, log |-> e.log,
      nested |-> e.nested]

----------------------------------------------------------------------------
(* UIControls and SlideSidebar *)

\* the pages slide-titles.js lists, one sidebar item each; the list is written
\* apart from the PDF and need not cover all its pages
SlidePages == 1 .. MaxPages - 1

\* nothing rendered yet
NoUi == [counter |-> <<0, 0>>, prevDisabled |-> FALSE, nextDisabled |-> FALSE, active |-> {}]

\* UIControls.updateUI(), the store holding the given page
UpdateUI(u, page, total) ==
  [u EXCEPT !.counter = <<page, total>>,
            !.prevDisabled = ~(page > 1),
            !.nextDisabled = ~(page < total)]

\* a sidebar that highlights the current item without clearing the previous one
UpdateActiveSlideNoRemove(u, page) ==
  [u EXCEPT !.active = @ \cup ({page} \cap SlidePages)]

\* the first of the highlighted items, in the order of the list
FirstActive(active) == CHOOSE p \in active : \A q \in active : p <= q

\* SlideSidebar._updateActiveSlide(), the store holding the given page:
\* querySelector takes the first highlighted item and the first item of the page
UpdateActiveSlide(u, page) ==
  LET cleared == IF u.active = {} THEN {} ELSE u.active \ {FirstActive(u.active)}
  IN [u EXCEPT !.active = cleared \cup ({page} \cap SlidePages)]

\* the presenters after the listeners of one pageChanged event have run: each
\* reads the page from the store, which holds the new page by then
Presented(u, log, page) ==
  LET a == IF \E i \in 1 .. Len(log) : log[i].l = "ui"
             THEN UpdateUI(u, page, totalPages) ELSE u
  IN IF \E i \in 1 .. Len(log) : log[i].l = "sidebar"
       THEN UpdateActiveSlide(a, page) ELSE a

----------------------------------------------------------------------------
(* NavigationController *)

\* goToPage(pageNum)
GoToPage(pageNum, T) == SetCurrentPage(pageNum, T)

\* a nextPage that skips a page
NextPageSkipping(T) ==
  IF ~CanGoNext THEN Unchanged ELSE GoToPage(Num(currentPage + 2), T)

\* nextPage(), previousPage()
NextPage(T) ==
  IF ~CanGoNext THEN Unchanged ELSE GoToPage(Num(currentPage + 1), T)

PreviousPage(T) ==
  IF ~CanGoPrevious THEN Unchanged ELSE GoToPage(Num(currentPage - 1), T)

\* the pageChanged listener of _setupStateListener: each invocation starts
\* pdfRenderer.renderPage(data.currentPage) and awaits it
RendersStarted(log) ==
  [p \in 1 .. MaxPages |->
     Cardinality({ i \in 1 .. Len(log) : log[i].l = "render" /\ log[i].data.currentPage = p })]

Pending(bag) ==
  LET RECURSIVE Sum(_)
      Sum(p) == IF p = 0 THEN 0 ELSE bag[p] + Sum(p - 1)
  IN Sum(MaxPages)

NoneOf == [p \in 1 .. MaxPages |-> 0]

BoolOf(out) == IF out.raised THEN Thrown ELSE BoolRet(out.changed)

----------------------------------------------------------------------------
(* Client tools (window.clientTools).  Each tool gives the outcome of the   *)
(* store call it makes (out) and the value its promise settles to (ret).    *)

\* initClientToolsStubs: every tool ignores its argument
StubTool == [out |-> Unchanged, ret |-> Result(FALSE, Msg1("Navigation not ready yet", 0), 0, 0)]

\* a nextPage tool that reads the page it reports before it navigates
ToolNextPageStale(T) ==
  LET current == currentPage
      out == NextPage(T)
      total == totalPages
  IN [out |-> out,
      ret |-> IF out.raised THEN Rejected
              ELSE IF out.changed
                THEN Result(TRUE, Msg2("Moved to page", current, total), current, total)
              ELSE Result(FALSE, Msg1("Already on last page", total), current, total)]

\* registerClientTools: nextPage
ToolNextPage(T) ==
  LET out == NextPage(T)
      current == out.page
      total == totalPages
  IN [out |-> out,
      ret |-> IF out.raised THEN Rejected
              ELSE IF out.changed
                THEN Result(TRUE, Msg2("Moved to page", current, total), current, total)
              ELSE Result(FALSE, Msg1("Already on last page", total), current, total)]

\* registerClientTools: previousPage
ToolPreviousPage(T) ==
  LET out == PreviousPage(T)
      current == out.page
      total == totalPages
  IN [out |-> out,
      ret |-> IF out.raised THEN Rejected
              ELSE IF out.changed
                THEN Result(TRUE, Msg2("Moved to page", current, total), current, total)
              ELSE Result(FALSE, Msg1("Already on first page", 0), current, total)]

\* a goToPage that takes its argument as the page number, object or not
ToolGoToPageBareOnly(params, T) ==
  LET pageNum == IF params.obj THEN Undef ELSE params.pn
      pageNumber == ParseInt(pageNum)
      total == totalPages
  IN IF IsNaN(pageNumber) \/ Less(pageNumber, 1) \/ Greater(pageNumber, total)
       THEN [out |-> Unchanged,
             ret |-> Result(FALSE, Msg1("Invalid page number. Must be between 1 and", total),
                            currentPage, total)]
     ELSE LET out == GoToPage(pageNumber, T)
          IN [out |-> out,
              ret |-> IF out.changed
                        THEN Result(TRUE, Msg2("Jumped to page", pageNumber.k, total),
                                    pageNumber.k, total)
                      ELSE Result(FALSE, Msg1("Failed to navigate to page", pageNumber.k),
                                  out.page, total)]

\* registerClientTools: goToPage(params)
ToolGoToPage(params, T) ==
  IF ~params.obj /\ TypeOf(params.pn) = "object"
    THEN \* typeof null === 'object': reading null.pageNumber throws a TypeError
         [out |-> Unchanged, ret |-> Rejected]
  ELSE
    LET pageNum == params.pn
        pageNumber == ParseInt(pageNum)
        total == totalPages
    IN IF IsNaN(pageNumber) \/ Less(pageNumber, 1) \/ Greater(pageNumber, total)
         THEN [out |-> Unchanged,
               ret |-> Result(FALSE, Msg1("Invalid page number. Must be between 1 and", total),
                              currentPage, total)]
       ELSE LET out == GoToPage(pageNumber, T)
            IN [out |-> out,
                ret |-> IF out.raised THEN Rejected
                        ELSE IF out.changed
                          THEN Result(TRUE, Msg2("Jumped to page", pageNumber.k, total),
                                      pageNumber.k, total)
                        ELSE Result(FALSE, Msg1("Failed to navigate to page", pageNumber.k),
                                    out.page, total)]

\* registerClientTools: getCurrentPage, getTotalPages
ToolGetCurrentPage ==
  [out |-> Unchanged,
   ret |-> Result(TRUE, Msg2("Currently on page", currentPage, totalPages),
                  currentPage, totalPages)]

ToolGetTotalPages ==
  [out |-> Unchanged,
   ret |-> Result(TRUE, Msg1("Presentation has pages", totalPages), 0, totalPages)]

\* a getPageText tool without the try/catch around the awaited extraction
ToolGetPageTextUncaught(current, ok) ==
  IF ok
    THEN [Result(TRUE, Msg1("Retrieved text from page", current), 0, 0)
            EXCEPT !.pageNumber = current]
    ELSE Rejected

\* a getPageText that reads the page number once the text has arrived
ToolGetPageTextResultLate(current, ok) ==
  IF ok
    THEN [Result(TRUE, Msg1("Retrieved text from page", currentPage), 0, 0)
            EXCEPT !.pageNumber = currentPage]
    ELSE Result(FALSE, Msg1("Failed to retrieve text from page", currentPage), 0, 0)

\* registerClientTools: getPageText, once the extraction of req has settled
ToolGetPageTextResult(current, ok) ==
  IF ok
    THEN [Result(TRUE, Msg1("Retrieved text from page", current), 0, 0)
            EXCEPT !.pageNumber = current]
    ELSE Result(FALSE, Msg1("Failed to retrieve text from page", current), 0, 0)

\* the names window.clientTools carries before and after registerClientTools
StubToolNames ==
  {"nextPage", "previousPage", "goToPage", "getCurrentPage", "getTotalPages", "getPageText"}
LiveToolNames ==
  {"nextPage", "previousPage", "goToPage", "getCurrentPage", "getTotalPages", "getPageText"}

\* PDFRenderer.getPageText(pageNumber): throws when no document is loaded or
\* the page is out of range, and when the extraction itself fails
RendererGetPageText(pageNumber, loaded, extracted) ==
  IF ~loaded THEN FALSE
  ELSE IF pageNumber < 1 \/ pageNumber > totalPages THEN FALSE
  ELSE extracted

\* an async call resolved with the text of page p
Resolved(p) == [NoRet EXCEPT !.kind = "resolved", !.ok = TRUE, !.pageNumber = p]

\* NavigationController.getPageText, once the extraction for page p has settled
NavGetPageTextResult(p, ok) == IF ok THEN Resolved(p) ELSE Rejected

----------------------------------------------------------------------------
(* TranscriptManager *)

\* Text is a sequence of pieces: single characters, or a fixed phrase of the
\* program taken whole.

\* an object that is no string: {} as a field value, a message object as payload
Obj == [t |-> "object", k |-> 0, h |-> 0, s |-> <<>>]

\* !!v
Truthy(v) ==
  CASE v.t = "string" -> v.s # <<>>
    [] v.t = "number" -> v.k # 0 \/ v.h # 0
    [] v.t = "object" -> TRUE
    [] v.t = "boolean" -> v.k = 1
    [] OTHER -> FALSE

\* a Date: its time value, or Invalid Date
Date(ms) == [valid |-> TRUE, ms |-> ms]
InvalidDate == [valid |-> FALSE, ms |-> 0]

\* new Date(v) for a truthy v: a number gives that time, its fraction dropped;
\* a string is parsed, and no string of the model is a date
NewDate(v) == IF v.t = "number" THEN Date(v.k) ELSE InvalidDate

\* String.prototype.trim
RECURSIVE TrimLeft(_)
TrimLeft(s) == IF s # <<>> /\ Head(s) = " " THEN TrimLeft(Tail(s)) ELSE s

RECURSIVE TrimRight(_)
TrimRight(s) ==
  IF s # <<>> /\ s[Len(s)] = " " THEN TrimRight(SubSeq(s, 1, Len(s) - 1)) ELSE s

Trim(s) == TrimRight(TrimLeft(s))

\* ChatInterface._escapeHtml: div.textContent = text; return div.innerHTML
EscapePiece(c) ==
  CASE c = "<" -> <<"&", "l", "t", ";">>
    [] c = ">" -> <<"&", "g", "t", ";">>
    [] c = "&" -> <<"&", "a", "m", "p", ";">>
    [] OTHER -> <<c>>

RECURSIVE EscapeHtml(_)
EscapeHtml(s) == IF s = <<>> THEN <<>> ELSE EscapePiece(Head(s)) \o EscapeHtml(Tail(s))

\* ChatInterface.addMessage(role, content, timestamp), on the messages d
ValidRoles == {"user", "agent", "system"}

AddMessage(d, role, content, timestamp) ==
  Append(d, [role |-> IF role \in ValidRoles THEN role ELSE "system",
             content |-> EscapeHtml(content),
             timestamp |-> timestamp])

\* _addToHistory(role, content, timestamp), on the history h
AddToHistory(h, role, content, timestamp) ==
  Append(h, [role |-> role, content |-> content, timestamp |-> timestamp])

\* An inbound message: the value itself (self) and, for each property the
\* normalizer reads, the value found there.  source, type and role hold a
\* string, or Absent for anything that equals none of the strings compared.
Absent == "(absent)"

Payload(self, source, type, role, message, text, content, transcript, timestamp, time) ==
  [self |-> self, source |-> source, type |-> type, role |-> role,
   message |-> message, text |-> text, content |-> content, transcript |-> transcript,
   timestamp |-> timestamp, time |-> time]

\* a string, a number, null or undefined received as the message: every
\* property read of a string or a number gives undefined
Primitive(v) == Payload(v, Absent, Absent, Absent, Undef, Undef, Undef, Undef, Undef, Undef)

\* a message object none of whose fields the normalizer knows, as {foo: "bar"}
ControlMessage == Primitive(Obj)

\* a role inference that looks at the role field first
DetermineRoleRoleFirst(m) ==
  IF m.role = "user" THEN "user"
  ELSE IF m.role = "assistant" \/ m.role = "agent" THEN "agent"
  ELSE IF m.source = "user" \/ m.type = "user_transcript" THEN "user"
  ELSE "agent"

\* _determineRole(message)
DetermineRole(m) ==
  IF m.source = "user" \/ m.type = "user_transcript" THEN "user"
  ELSE IF m.source = "ai" \/ m.type = "agent_response" THEN "agent"
  ELSE IF m.role = "user" THEN "user"
  ELSE IF m.role = "assistant" \/ m.role = "agent" THEN "agent"
  ELSE "agent"

\* a content extraction that takes any truthy field, string or not
ExtractContentAnyType(m) ==
  IF Truthy(m.message) THEN m.message
  ELSE IF Truthy(m.text) THEN m.text
  ELSE IF Truthy(m.content) THEN m.content
  ELSE IF Truthy(m.transcript) THEN m.transcript
  ELSE IF TypeOf(m.self) = "string" THEN m.self
  ELSE Null

\* _extractContent(message)
ExtractContent(m) ==
  IF Truthy(m.message) /\ TypeOf(m.message) = "string" THEN m.message
  ELSE IF Truthy(m.text) /\ TypeOf(m.text) = "string" THEN m.text
  ELSE IF Truthy(m.content) /\ TypeOf(m.content) = "string" THEN m.content
  ELSE IF Truthy(m.transcript) /\ TypeOf(m.transcript) = "string" THEN m.transcript
  ELSE IF TypeOf(m.self) = "string" THEN m.self
  ELSE Null

\* a timestamp extraction that does not read the time field
ExtractTimestampNoTime(m, t) ==
  IF Truthy(m.timestamp) THEN NewDate(m.timestamp) ELSE Date(t)

\* _extractTimestamp(message), the clock showing t
ExtractTimestamp(m, t) ==
  IF Truthy(m.timestamp) THEN NewDate(m.timestamp)
  ELSE IF Truthy(m.time) THEN NewDate(m.time)
  ELSE Date(t)

\* _conversation: null, or a session exposing some of the probed send methods
Unbound == [bound |-> FALSE, methods |-> {}]
Session(ms) == [bound |-> TRUE, methods |-> ms]

\* the send methods sendTextMessage probes, in the order it probes them
SendMethods == <<"sendTextMessage", "sendMessage", "send", "sendUserMessage", "sendText">>

\* a probe chain that takes the last of the probed methods the session has
FirstMethodLast(ms) ==
  IF "sendText" \in ms THEN "sendText"
  ELSE IF "sendUserMessage" \in ms THEN "sendUserMessage"
  ELSE IF "send" \in ms THEN "send"
  ELSE IF "sendMessage" \in ms THEN "sendMessage"
  ELSE IF "sendTextMessage" \in ms THEN "sendTextMessage"
  ELSE "none"

\* the first probed method the session has ("none": it has none of them)
FirstMethod(ms) ==
  IF \E i \in 1 .. Len(SendMethods) : SendMethods[i] \in ms
    THEN SendMethods[CHOOSE i \in 1 .. Len(SendMethods) :
                       /\ SendMethods[i] \in ms
                       /\ \A j \in 1 .. i - 1 : SendMethods[j] \notin ms]
    ELSE "none"

\* what a send method throws or rejects with: nothing ("no"), null or
\* undefined ("nullish"), or any other value ("value": an Error, a string, ...)
Failures == {"no", "value", "nullish"}

NotConnected == <<"Voice conversation not connected">>
DisplayOnly ==
  <<"Text input is for display only - voice conversation required for agent interaction">>
SendError == <<"Error sending message: ", "(error.message)">>

NoPayload == Primitive(Undef)

\* what a TranscriptManager call did: steps lists its effects in program order
Chat(op, payload, text, role, content, timestamp, steps) ==
  [op |-> op, payload |-> payload, text |-> text, role |-> role, content |-> content,
   timestamp |-> timestamp, steps |-> steps]

NoChat == Chat("none", NoPayload, Undef, "", Null, InvalidDate, <<>>)

\* a handleVoiceMessage that shows a message without content instead of dropping it
HandleVoiceMessageNoDrop(m) ==
  IF ~Truthy(m.self)
    THEN [history |-> history, display |-> display,
          chat |-> Chat("handleVoiceMessage", m, Undef, "", Null, InvalidDate, <<>>)]
  ELSE LET role == DetermineRole(m)
           content == ExtractContent(m)
           timestamp == ExtractTimestamp(m, now)
       IN [history |-> AddToHistory(history, role, content.s, timestamp),
           display |-> AddMessage(display, role, content.s, timestamp),
           chat |-> Chat("handleVoiceMessage", m, Undef, role, content, timestamp,
                         <<"history", "display">>)]

\* handleVoiceMessage(message): the history, the display and the record of the call
HandleVoiceMessage(m) ==
  IF ~Truthy(m.self)
    THEN [history |-> history, display |-> display,
          chat |-> Chat("handleVoiceMessage", m, Undef, "", Null, InvalidDate, <<>>)]
  ELSE LET role == DetermineRole(m)
           content == ExtractContent(m)
           timestamp == ExtractTimestamp(m, now)
       IN IF ~Truthy(content)
            THEN [history |-> history, display |-> display,
                  chat |-> Chat("handleVoiceMessage", m, Undef, role, content, timestamp, <<>>)]
            ELSE [history |-> AddToHistory(history, role, content.s, timestamp),
                  display |-> AddMessage(display, role, content.s, timestamp),
                  chat |-> Chat("handleVoiceMessage", m, Undef, role, content, timestamp,
                                <<"history", "display">>)]

\* sendTextMessage variants: one that does not look at the trimmed text, one
\* that returns before recording anything when no session is bound, one that
\* shows no notice when it cannot send
SendTextMessageVariant(text, throws, trimCheck, boundOnly, notice) ==
  IF ~Truthy(text) \/ TypeOf(text) # "string"
    THEN [history |-> history, display |-> display, sent |-> sent,
          chat |-> Chat("sendTextMessage", NoPayload, text, "", Null, InvalidDate, <<>>)]
  ELSE LET trimmedText == Trim(text.s)
           timestamp == Date(now)
           h == AddToHistory(history, "user", trimmedText, timestamp)
           d == AddMessage(display, "user", trimmedText, timestamp)
           method == FirstMethod(conversation.methods)
           rec(steps) == Chat("sendTextMessage", NoPayload, text, "user", Str(trimmedText),
                              timestamp, steps)
       IN IF (trimCheck /\ trimmedText = <<>>) \/ (boundOnly /\ ~conversation.bound)
            THEN [history |-> history, display |-> display, sent |-> sent,
                  chat |-> Chat("sendTextMessage", NoPayload, text, "", Null, InvalidDate, <<>>)]
          ELSE IF ~conversation.bound \/ method = "none"
            THEN [history |-> h,
                  display |-> IF notice
                                THEN AddMessage(d, "system",
                                                IF conversation.bound THEN DisplayOnly
                                                ELSE NotConnected, Date(now))
                                ELSE d,
                  sent |-> sent,
                  chat |-> rec(<<"history", "display", "notice">>)]
          ELSE IF throws = "nullish"
            THEN [history |-> h,
                  display |-> d,
                  sent |-> Append(sent, [method |-> method, text |-> trimmedText,
                                         state |-> "failed"]),
                  chat |-> rec(<<"history", "display", "send", "rejected">>)]
          ELSE IF throws = "value"
            THEN [history |-> h,
                  display |-> AddMessage(d, "system", SendError, Date(now)),
                  sent |-> Append(sent, [method |-> method, text |-> trimmedText,
                                         state |-> "failed"]),
                  chat |-> rec(<<"history", "display", "send", "error">>)]
          ELSE [history |-> h,
                display |-> d,
                sent |-> Append(sent, [method |-> method, text |-> trimmedText,
                                       state |-> "pending"]),
                chat |-> rec(<<"history", "display", "send">>)]

SendTextMessageNoTrimCheck(text, throws) ==
  SendTextMessageVariant(text, throws, FALSE, FALSE, TRUE)

SendTextMessageBoundOnly(text, throws) ==
  SendTextMessageVariant(text, throws, TRUE, TRUE, TRUE)

SendTextMessageNoNotice(text, throws) ==
  SendTextMessageVariant(text, throws, TRUE, FALSE, FALSE)

\* sendTextMessage(text) up to its await: the history, the display, the
\* methods invoked on the session and the record of the call.  throws: what
\* the method invoked throws instead of returning a promise.  The catch block
\* reads error.message: of null or undefined that read throws a TypeError, the
\* block ends before addMessage and the promise of sendTextMessage rejects.
SendTextMessage(text, throws) ==
  IF ~Truthy(text) \/ TypeOf(text) # "string"
    THEN [history |-> history, display |-> display, sent |-> sent,
          chat |-> Chat("sendTextMessage", NoPayload, text, "", Null, InvalidDate, <<>>)]
  ELSE LET trimmedText == Trim(text.s)
           timestamp == Date(now)
           h == AddToHistory(history, "user", trimmedText, timestamp)
           d == AddMessage(display, "user", trimmedText, timestamp)
           method == FirstMethod(conversation.methods)
           rec(steps) == Chat("sendTextMessage", NoPayload, text, "user", Str(trimmedText),
                              timestamp, steps)
       IN IF trimmedText = <<>>
            THEN [history |-> history, display |-> display, sent |-> sent,
                  chat |-> Chat("sendTextMessage", NoPayload, text, "", Null, InvalidDate, <<>>)]
          ELSE IF ~conversation.bound
            THEN [history |-> h,
                  display |-> AddMessage(d, "system", NotConnected, Date(now)),
                  sent |-> sent,
                  chat |-> rec(<<"history", "display", "notice">>)]
          ELSE IF method = "none"
            THEN [history |-> h,
                  display |-> AddMessage(d, "system", DisplayOnly, Date(now)),
                  sent |-> sent,
                  chat |-> rec(<<"history", "display", "notice">>)]
          ELSE IF throws = "nullish"
            THEN [history |-> h,
                  display |-> d,
                  sent |-> Append(sent, [method |-> method, text |-> trimmedText,
                                         state |-> "failed"]),
                  chat |-> rec(<<"history", "display", "send", "rejected">>)]
          ELSE IF throws = "value"
            THEN [history |-> h,
                  display |-> AddMessage(d, "system", SendError, Date(now)),
                  sent |-> Append(sent, [method |-> method, text |-> trimmedText,
                                         state |-> "failed"]),
                  chat |-> rec(<<"history", "display", "send", "error">>)]
          ELSE [history |-> h,
                display |-> d,
                sent |-> Append(sent, [method |-> method, text |-> trimmedText,
                                       state |-> "pending"]),
                chat |-> rec(<<"history", "display", "send">>)]

\* the methods signalUserActivity probes, in the order it probes them
ActivityMethods == <<"sendUserActivity", "sendTypingIndicator", "keepAlive", "interrupt">>

\* the method signalUserActivity invokes on a session ("none": it invokes none);
\* keepAlive and interrupt are taken only while the user is typing
ActivityMethod(ms, isTyping) ==
  IF "sendUserActivity" \in ms THEN "sendUserActivity"
  ELSE IF "sendTypingIndicator" \in ms THEN "sendTypingIndicator"
  ELSE IF "keepAlive" \in ms /\ Truthy(isTyping) THEN "keepAlive"
  ELSE IF "interrupt" \in ms /\ Truthy(isTyping) THEN "interrupt"
  ELSE "none"

\* a signalUserActivity without its try/catch
SignalUserActivityUncaught(isTyping, throws) ==
  LET method == IF conversation.bound THEN ActivityMethod(conversation.methods, isTyping)
                ELSE "none"
  IN Chat("signalUserActivity", NoPayload, isTyping, "", Null, InvalidDate,
          IF method = "none" THEN <<>>
          ELSE IF throws THEN <<method, "raised">>
          ELSE <<method>>)

\* signalUserActivity(isTyping): the record of the call, its steps naming the
\* session method invoked and what became of an exception it threw
SignalUserActivity(isTyping, throws) ==
  IF ~conversation.bound
    THEN Chat("signalUserActivity", NoPayload, isTyping, "", Null, InvalidDate, <<>>)
  ELSE LET method == ActivityMethod(conversation.methods, isTyping)
       IN Chat("signalUserActivity", NoPayload, isTyping, "", Null, InvalidDate,
               IF method = "none" THEN <<>>
               ELSE IF throws THEN <<method, "caught">>
               ELSE <<method>>)

----------------------------------------------------------------------------
(* VoiceControls and the voice sessions.  A session is one call of          *)
(* Conversation.startSession(config); the client library settles the call   *)
(* and fires the callbacks of the config in an order the application does   *)
(* not control.  The speaking indicator and the hover texts of the button   *)
(* write the status line only and are left out.                             *)

SessionIds == 1 .. MaxSessions

\* a call of startSession: its promise (none: not called, pending, resolved,
\* rejected), the callbacks fired (no, connected, disconnected), whether the
\* timer of onConnect is still to fire, whether a call of endSession on it is
\* awaited, whether one has resolved
NoSession ==
  [start |-> "none", connect |-> "no", timer |-> FALSE, endPending |-> FALSE, ended |-> FALSE]

\* new VoiceControls(container); bound is the session held by
\* transcriptManager._conversation (0: null), raised whether a promise
\* returned by toggleVoice has rejected
NoVoice ==
  [configured |-> FALSE, conversation |-> 0, isActive |-> FALSE, status |-> "",
   sessions |-> [i \in SessionIds |-> NoSession], bound |-> 0, raised |-> FALSE]

\* render()
Render(v) == [v EXCEPT !.status = "Ready"]

\* updateButtonState(), the agent silent
UpdateButtonState(v) ==
  [v EXCEPT !.status = IF v.conversation # 0 /\ v.isActive THEN "Listening..."
                       ELSE IF v.configured THEN "Click to Talk"
                       ELSE "Setting Up..."]

\* setConversationConfig(conversationClass, config)
SetConversationConfig(v) == UpdateButtonState([v EXCEPT !.configured = TRUE])

\* the sessions on which startSession has not been called yet
Unused(v) == { i \in SessionIds : v.sessions[i].start = "none" }

\* toggleVoice(), up to its first await or its return
ToggleVoice(v) ==
  IF ~v.configured
    THEN [v EXCEPT !.status = "Not Ready"]
  ELSE IF v.isActive /\ v.conversation # 0
    THEN [v EXCEPT !.sessions[v.conversation].endPending = TRUE]
  ELSE LET i == CHOOSE j \in Unused(v) : \A k \in Unused(v) : j <= k
       IN [v EXCEPT !.status = "Connecting...",
                    !.sessions[i].start = "pending"]

\* a toggleVoice whose start branch has no catch block
StartSettledUncaught(v, i, ok) ==
  IF ok
    THEN [v EXCEPT !.conversation = i, !.sessions[i].start = "resolved"]
    ELSE [v EXCEPT !.sessions[i].start = "rejected",
                   !.raised = TRUE]

\* toggleVoice() resumed after await startSession(config) on session i
StartSettled(v, i, ok) ==
  IF ok
    THEN [v EXCEPT !.conversation = i, !.sessions[i].start = "resolved"]
    ELSE [v EXCEPT !.status = "Error - Click to Retry",
                   !.conversation = 0,
                   !.isActive = FALSE,
                   !.sessions[i].start = "rejected"]

\* toggleVoice() resumed after await this.conversation.endSession() on session i
EndSettled(v, i, ok) ==
  IF ok
    THEN [v EXCEPT !.conversation = 0,
                   !.isActive = FALSE,
                   !.status = "Click to Talk",
                   !.sessions[i].endPending = FALSE,
                   !.sessions[i].ended = TRUE]
    ELSE [v EXCEPT !.status = "Error",
                   !.sessions[i].endPending = FALSE]

\* conversationConfig.onConnect, fired for session i: the binding is put off
\* by a timer of 100 ms
OnConnect(v, i) ==
  UpdateButtonState([v EXCEPT !.isActive = TRUE,
                              !.sessions[i].connect = "connected",
                              !.sessions[i].timer = TRUE])

\* conversationConfig.onDisconnect, fired for session i
OnDisconnect(v, i) ==
  UpdateButtonState([v EXCEPT !.isActive = FALSE,
                              !.sessions[i].connect = "disconnected"])

\* the send methods a session of the client library exposes
VoiceSessionMethods == {"sendUserMessage"}

Connected == <<"Voice session connected - transcript will appear here">>
NotActive == <<"Voice session not active. Please start a voice conversation first.">>

\* the timer of onConnect fires for session i: the router is handed whatever
\* voiceControls.conversation holds by then, if it holds anything
TimerFired(v, i) ==
  [v EXCEPT !.sessions[i].timer = FALSE,
            !.bound = IF v.conversation # 0 THEN v.conversation ELSE v.bound]

\* an onSubmit that hands every text to the transcript manager
OnSubmitUnguarded(text, throws) == SendTextMessage(Str(text), throws)

\* the onSubmit callback of the chat form: the text goes to
\* transcriptManager.sendTextMessage when the manager holds a session, and is
\* answered by a system notice otherwise
OnSubmit(text, throws) ==
  IF conversation.bound
    THEN SendTextMessage(Str(text), throws)
    ELSE [history |-> history,
          display |-> AddMessage(display, "system", NotActive, Date(now)),
          sent |-> sent,
          chat |-> Chat("onSubmit", NoPayload, Str(text), "", Null, InvalidDate, <<"notice">>)]

\* what the user types into the chat form
FormInputs == { <<" ">>, <<" ", "h", "i", " ">> }

----------------------------------------------------------------------------
(* StateManager: construction *)

RECURSIVE AllDigits(_)
AllDigits(s) == s = <<>> \/ (Head(s) \in Digits /\ AllDigits(Tail(s)))

\* Number(s) for a string: blanks trimmed, the empty string is 0, a signed run
\* of digits is that integer, anything else is NaN
StringToNumber(s) ==
  LET t == Trim(s)
      u == IF t # <<>> /\ Head(t) \in {"-", "+"} THEN Tail(t) ELSE t
  IN IF t = <<>> THEN Num(0)
     ELSE IF u = <<>> \/ ~AllDigits(u) THEN NaN
     ELSE Num(IF Head(t) = "-" THEN 0 - ReadDigits(u, 0) ELSE ReadDigits(u, 0))

\* v < 1: the operand is converted to a number, and NaN compares false
LessThanOne(v) ==
  CASE v.t = "number" -> Less(v, 1)
    [] v.t = "string" -> Less(StringToNumber(v.s), 1)
    [] v.t = "boolean" -> v.k < 1
    [] v.t = "null" -> TRUE
    [] OTHER -> FALSE

\* a store constructed: _currentPage is 1 and _totalPages is the argument as given
StoreRet == [NoRet EXCEPT !.kind = "store", !.cur = 1]

\* new StateManager(totalPages)
NewStateManager(v) ==
  IF ~Truthy(v) \/ LessThanOne(v) THEN Thrown ELSE StoreRet

\* the values a caller of the constructor can pass
ConstructorArgs ==
  Values \cup { Num(0 - 1), Frac(0 - 1), Bool(TRUE), Bool(FALSE), Obj, Str(<<>>) }

----------------------------------------------------------------------------
(* The state machine *)

Init ==
  /\ phase = "loading"
  /\ clientTools = "stub"
  /\ totalPages = 0
  /\ currentPage = 0
  /\ listeners = <<>>
  /\ regRank = [l \in AllListeners |-> 0]
  /\ renders = NoneOf
  /\ canvasPage = 0
  /\ renderErrors = FALSE
  /\ textReqs = NoneOf
  /\ last = [op |-> "none", arg |-> NoArg, before |-> 0, errorsBefore |-> FALSE,
             ret |-> NoRet, log |-> <<>>]
  /\ ui = NoUi
  /\ held = "none"
  /\ navTextReqs = NoneOf
  /\ textOut = [who |-> "none", page |-> 0, ok |-> FALSE]
  /\ conversation = Unbound
  /\ history = <<>>
  /\ display = <<>>
  /\ sent = <<>>
  /\ now = 1
  /\ lastChat = NoChat
  /\ voice = NoVoice

\* initPresentation, from the end of loadPDF to the await of renderPage(1):
\* new StateManager(numPages), new NavigationController (registers the render
\* listener), UIControls.render (registers its listener), VoiceControls.render,
\* APIController.expose, registerClientTools
PDFLoaded(counts) ==
  /\ phase = "loading"
  /\ \E numPages \in counts :
       /\ totalPages' = numPages
       /\ currentPage' = 1
  /\ listeners' = SetAdd(SetAdd(<<>>, "render"), "ui")
  /\ regRank' = [regRank EXCEPT !["render"] = 1, !["ui"] = 2]
  /\ clientTools' = "live"
  /\ phase' = "firstRender"
  /\ ui' = UpdateUI(NoUi, currentPage', totalPages')
  /\ voice' = Render(voice)
  /\ UNCHANGED <<renders, canvasPage, renderErrors, textReqs, last>>
  /\ UNCHANGED <<held, navTextReqs, textOut, chatVars>>

\* the same, for a document of any page count the model covers
LoadPDFDone == PDFLoaded(1 .. MaxPages)

\* loadPDF rejects: initPresentation throws before anything is constructed
LoadPDFFail ==
  /\ phase = "loading"
  /\ phase' = "loadFailed"
  /\ UNCHANGED <<clientTools, totalPages, currentPage, listeners, regRank,
                 renders, canvasPage, renderErrors, textReqs, last>>
  /\ UNCHANGED <<ui, otherVars>>

\* the renderPage(1) awaited by initPresentation resolves: the canvas shows
\* page 1, the rest of the set-up runs: the chat and the transcript manager
\* are built, voiceControls.setConversationConfig is called and
\* SlideSidebar.render registers its listener
FirstRenderDone ==
  /\ phase = "firstRender"
  /\ canvasPage' = 1
  /\ phase' = "ready"
  /\ listeners' = SetAdd(listeners, "sidebar")
  /\ regRank' = [regRank EXCEPT !["sidebar"] = Registered + 1]
  /\ ui' = UpdateActiveSlide(ui, currentPage)
  /\ voice' = SetConversationConfig(voice)
  /\ UNCHANGED <<clientTools, totalPages, currentPage, renders, renderErrors, textReqs, last>>
  /\ UNCHANGED <<held, navTextReqs, textOut, chatVars>>

\* it rejects: initPresentation throws; what it had set up stays in place
FirstRenderFail ==
  /\ phase = "firstRender"
  /\ phase' = "initFailed"
  /\ UNCHANGED <<clientTools, totalPages, currentPage, listeners, regRank,
                 renders, canvasPage, renderErrors, textReqs, last>>
  /\ UNCHANGED <<ui, otherVars>>

\* a renderPage(p) started by the render listener resolves: the canvas shows p
RenderDone ==
  \E p \in 1 .. MaxPages :
    /\ renders[p] > 0
    /\ renders' = [renders EXCEPT ![p] = @ - 1]
    /\ canvasPage' = p
    /\ UNCHANGED <<phase, clientTools, totalPages, currentPage, listeners, regRank, renderErrors, textReqs, last>>
    /\ UNCHANGED <<ui, otherVars>>

\* a render failure that puts the store back on the page the canvas shows
RenderFailRollback ==
  \E p \in 1 .. MaxPages :
    /\ renders[p] > 0
    /\ renders' = [renders EXCEPT ![p] = @ - 1]
    /\ renderErrors' = TRUE
    /\ currentPage' = IF canvasPage > 0 THEN canvasPage ELSE currentPage
    /\ UNCHANGED <<phase, clientTools, totalPages, listeners, regRank, canvasPage, textReqs, last>>
    /\ UNCHANGED <<ui, otherVars>>

\* it rejects: the render listener catches the error and logs it
RenderFail ==
  \E p \in 1 .. MaxPages :
    /\ renders[p] > 0
    /\ renders' = [renders EXCEPT ![p] = @ - 1]
    /\ renderErrors' = TRUE
    /\ UNCHANGED <<phase, clientTools, totalPages, currentPage, listeners, regRank, canvasPage, textReqs, last>>
    /\ UNCHANGED <<ui, otherVars>>

\* the effects of a call that went through the store
Apply(op, arg, r) ==
  /\ Pending(renders) + Pending(RendersStarted(r.out.log)) <= MaxRenders
  /\ currentPage' = r.out.page
  /\ renders' = [p \in 1 .. MaxPages |-> renders[p] + RendersStarted(r.out.log)[p]]
  /\ last' = Call(op, arg, r.ret, r.out.log)
  /\ ui' = Presented(ui, r.out.log, r.out.page)
  /\ UNCHANGED <<phase, clientTools, totalPages, listeners, regRank,
                 canvasPage, renderErrors, textReqs>>
  /\ UNCHANGED otherVars

Throwers == SUBSET (Callbacks \cap Range(listeners))

StoreExposed == phase = "ready"
NavExposed == phase \in {"firstRender", "ready", "initFailed"}

\* stateManager.addEventListener('pageChanged', cb): Set.add
AddEventListener ==
  /\ StoreExposed
  /\ \E cb \in Callbacks :
       /\ listeners' = SetAdd(listeners, cb)
       /\ regRank' = IF regRank[cb] > 0 THEN regRank
                     ELSE [regRank EXCEPT ![cb] = Registered + 1]
  /\ UNCHANGED <<phase, clientTools, totalPages, currentPage, renders, canvasPage,
                 renderErrors, textReqs, last>>
  /\ UNCHANGED <<ui, otherVars>>

\* stateManager.removeEventListener('pageChanged', cb): Set.delete
RemoveEventListener ==
  /\ StoreExposed
  /\ \E cb \in Callbacks :
       /\ listeners' = SetDelete(listeners, cb)
       /\ regRank' = [l \in AllListeners |->
                        IF l = cb THEN 0
                        ELSE IF regRank[cb] > 0 /\ regRank[l] > regRank[cb] THEN regRank[l] - 1
                        ELSE regRank[l]]
  /\ UNCHANGED <<phase, clientTools, totalPages, currentPage, renders,
                 canvasPage, renderErrors, textReqs, last>>
  /\ UNCHANGED <<ui, otherVars>>

\* stateManager.setCurrentPage(p) while callback r, registered by code that
\* holds the store, calls setCurrentPage(q) from inside its notification; the
\* presenters, registered before any callback, have shown page p by then and
\* show page q when the nested event reaches them
ReentrantSetCurrentPageCalled ==
  /\ StoreExposed
  /\ \E p \in 1 .. totalPages, r \in Callbacks \cap Range(listeners), q \in 1 .. totalPages :
       LET out == SetCurrentPageReentrant(p, r, q)
       IN /\ p # currentPage
          /\ Pending(renders) + Pending(RendersStarted(out.log)) <= MaxRenders
          /\ currentPage' = out.page
          /\ renders' = [n \in 1 .. MaxPages |-> renders[n] + RendersStarted(out.log)[n]]
          /\ last' = Call("setCurrentPage", NoArg, BoolRet(TRUE), out.log)
          /\ ui' = IF out.nested THEN Presented(Presented(ui, out.log, p), out.log, q)
                   ELSE Presented(ui, out.log, p)
  /\ UNCHANGED <<phase, clientTools, totalPages, listeners, regRank,
                 canvasPage, renderErrors, textReqs>>
  /\ UNCHANGED otherVars

\* stateManager.setCurrentPage(v), called on the store itself
SetCurrentPageCalled(keepArg) ==
  /\ StoreExposed
  /\ \E v \in Values, T \in Throwers :
       LET out == SetCurrentPage(v, T)
       IN Apply("setCurrentPage", IF keepArg THEN BareArg(v) ELSE NoArg,
                [out |-> out, ret |-> BoolOf(out)])

\* navigationController.goToPage(v): window.pdfController, sidebar items, PDF links
CallGoToPage ==
  /\ NavExposed
  /\ \E v \in Values, T \in Throwers :
       LET out == GoToPage(v, T)
       IN Apply("goToPage", NoArg, [out |-> out, ret |-> BoolOf(out)])

\* navigationController.nextPage(): window.pdfController, the Next button
CallNextPage ==
  /\ NavExposed
  /\ \E T \in Throwers :
       LET out == NextPage(T)
       IN Apply("nextPage", NoArg, [out |-> out, ret |-> BoolOf(out)])

\* navigationController.previousPage(): window.pdfController, the Previous button
CallPreviousPage ==
  /\ NavExposed
  /\ \E T \in Throwers :
       LET out == PreviousPage(T)
       IN Apply("previousPage", NoArg, [out |-> out, ret |-> BoolOf(out)])

\* window.pdfController.getCurrentPage(): navigationController.getCurrentPage(),
\* which is stateManager.getCurrentPage()
CallGetCurrentPage ==
  /\ NavExposed
  /\ Apply("getCurrentPage", NoArg, [out |-> Unchanged, ret |-> NumberRet(currentPage)])

\* window.pdfController.getTotalPages()
CallGetTotalPages ==
  /\ NavExposed
  /\ Apply("getTotalPages", NoArg, [out |-> Unchanged, ret |-> NumberRet(totalPages)])

\* the keys the README lists as navigation shortcuts
Keys == {"ArrowLeft", "ArrowRight", "Home", "End"}

\* a key is pressed on the page: UIControls attaches the two click listeners
\* and the pageChanged listener, and no listener for key events
KeyDown ==
  /\ StoreExposed
  /\ \E key \in Keys :
       Apply("keydown", BareArg(Str(<<key>>)), [out |-> Unchanged, ret |-> NoRet])

\* window.clientTools.<tool>(params)
CallToolNextPage ==
  \E T \in Throwers :
    Apply("tool.nextPage", NoArg, IF clientTools = "stub" THEN StubTool ELSE ToolNextPage(T))

CallToolPreviousPage ==
  \E T \in Throwers :
    Apply("tool.previousPage", NoArg,
          IF clientTools = "stub" THEN StubTool ELSE ToolPreviousPage(T))

ToolGoToPageCalled(keepArg) ==
  \E params \in ToolArgs, T \in Throwers :
    Apply("tool.goToPage", IF keepArg THEN params ELSE NoArg,
          IF clientTools = "stub" THEN StubTool ELSE ToolGoToPage(params, T))

CallToolGetCurrentPage ==
  Apply("tool.getCurrentPage", NoArg,
        IF clientTools = "stub" THEN StubTool ELSE ToolGetCurrentPage)

CallToolGetTotalPages ==
  Apply("tool.getTotalPages", NoArg,
        IF clientTools = "stub" THEN StubTool ELSE ToolGetTotalPages)

\* getPageText: the stub settles at once; the live tool reads the current page,
\* asks the renderer for the text of the store's current page and awaits it
CallToolGetPageText ==
  IF clientTools = "stub"
    THEN Apply("tool.getPageText", NoArg, StubTool)
    ELSE /\ Pending(textReqs) < MaxTextReqs
         /\ textReqs' = [textReqs EXCEPT ![currentPage] = @ + 1]
         /\ UNCHANGED <<phase, clientTools, totalPages, currentPage, listeners, regRank, renders, canvasPage, renderErrors, last>>
         /\ UNCHANGED <<ui, otherVars>>

\* the text extraction settles and the getPageText tool with it
TextSettled ==
  \E p \in 1 .. MaxPages, ok \in BOOLEAN :
    /\ textReqs[p] > 0
    /\ textReqs' = [textReqs EXCEPT ![p] = @ - 1]
    /\ last' = Call("tool.getPageText", NoArg, ToolGetPageTextResult(p, ok), <<>>)
    /\ UNCHANGED <<phase, clientTools, totalPages, currentPage, listeners, regRank, renders, canvasPage, renderErrors>>
    /\ textOut' = [who |-> "tool", page |-> p, ok |-> ok]
    /\ UNCHANGED <<ui, held, navTextReqs, chatVars, voice>>

\* navigationController.getPageText(), through window.pdfController: reads the
\* store's current page, asks the renderer for its text and awaits it
CallGetPageText ==
  /\ NavExposed
  /\ Pending(navTextReqs) + Pending(textReqs) < MaxTextReqs
  /\ navTextReqs' = [navTextReqs EXCEPT ![currentPage] = @ + 1]
  /\ UNCHANGED <<navVars, held, textOut, chatVars, voice>>

\* the extraction settles and the promise of getPageText with it
NavTextSettled ==
  \E p \in 1 .. MaxPages, loaded \in BOOLEAN, extracted \in BOOLEAN :
    LET ok == RendererGetPageText(p, loaded, extracted)
    IN /\ navTextReqs[p] > 0
       /\ navTextReqs' = [navTextReqs EXCEPT ![p] = @ - 1]
       /\ last' = Call("getPageText", NoArg, NavGetPageTextResult(p, ok), <<>>)
       /\ textOut' = [who |-> "nav", page |-> p, ok |-> ok]
       /\ UNCHANGED <<phase, clientTools, totalPages, currentPage, listeners, regRank,
                      renders, canvasPage, renderErrors, textReqs, ui, held, chatVars, voice>>

\* an outside caller reads window.clientTools and keeps the object it finds
Discover ==
  /\ held' = clientTools
  /\ UNCHANGED <<navVars, navTextReqs, textOut, chatVars, voice>>

\* the caller invokes a tool of the object it kept
CallHeldNextPage ==
  /\ held # "none"
  /\ \E T \in Throwers :
       Apply("held.nextPage", NoArg, IF held = "stub" THEN StubTool ELSE ToolNextPage(T))

CallHeldPreviousPage ==
  /\ held # "none"
  /\ \E T \in Throwers :
       Apply("held.previousPage", NoArg,
             IF held = "stub" THEN StubTool ELSE ToolPreviousPage(T))

CallHeldGetCurrentPage ==
  /\ held # "none"
  /\ Apply("held.getCurrentPage", NoArg,
           IF held = "stub" THEN StubTool ELSE ToolGetCurrentPage)

\* the transcript manager is built by initPresentation after the first render
RouterExists == phase = "ready"

\* inbound messages that vary the fields role inference reads
RolePayloads ==
  { Payload(Obj, so, ty, ro, me, Undef, Undef, Undef, Undef, Undef) :
      so \in {Absent, "user", "ai"},
      ty \in {Absent, "user_transcript", "agent_response"},
      ro \in {Absent, "user", "assistant", "agent", "system"},
      me \in {Undef, Str(<<"m">>)} }

\* inbound messages that vary the fields content extraction reads
ContentPayloads ==
  { Payload(Obj, so, Absent, Absent, me, te, co, tr, Undef, Undef) :
      so \in {Absent, "user"},
      me \in {Undef, Str(<<>>), Str(<<"m">>), Num(1)},
      te \in {Undef, Str(<<>>), Str(<<"t">>), Obj},
      co \in {Undef, Str(<<>>), Str(<<"c">>), Num(1)},
      tr \in {Undef, Str(<<>>), Str(<<"r">>), Null} }

\* inbound messages that vary the fields timestamp extraction reads
TimePayloads ==
  { Payload(Obj, Absent, Absent, ro, Undef, te, Undef, Undef, ts, ti) :
      ro \in {Absent, "user"},
      te \in {Undef, Str(<<"t">>)},
      ts \in {Undef, Num(0), Num(5), Str(<<"a", "b">>)},
      ti \in {Undef, Num(0), Num(7)} }

\* messages that are no objects
PrimitivePayloads ==
  { Primitive(v) : v \in {Null, Undef, Str(<<>>), Str(<<"h", "i">>), Num(1)} }

NormPayloads == RolePayloads \cup ContentPayloads \cup TimePayloads \cup PrimitivePayloads

\* the messages the router is driven with
RouterPayloads ==
  { Payload(Obj, "user", Absent, Absent, Str(<<"m">>), Undef, Undef, Undef, Undef, Undef),
    Payload(Obj, "ai", Absent, "user", Undef, Str(<<"<">>), Undef, Undef, Undef, Undef),
    Payload(Obj, Absent, Absent, Absent, Str(<<>>), Num(1), Undef, Str(<<"r">>), Num(5), Undef),
    ControlMessage,
    Primitive(Null),
    Primitive(Str(<<"h", "i">>)) }

\* the arguments sendTextMessage is called with
Texts ==
  { Str(<<>>), Str(<<" ">>), Str(<<" ", "h", "i", " ">>), Str(<<"<">>), Num(1) }

\* the sessions the router is bound to, by the probed methods they expose
SessionKinds == { {}, {"sendMessage", "sendText"}, {"sendText"} }

PendingSends(q) == Cardinality({ i \in 1 .. Len(q) : q[i].state = "pending" })

\* the normalizer applied to an inbound message, as handleVoiceMessage applies
\* it once the message has passed its null check
NormalizeMessage ==
  /\ \E m \in NormPayloads :
       /\ Truthy(m.self)
       /\ lastChat' = Chat("normalize", m, Undef, DetermineRole(m), ExtractContent(m),
                           ExtractTimestamp(m, now), <<>>)
  /\ UNCHANGED <<navVars, held, navTextReqs, textOut, voice, conversation, history, display, sent, now>>

\* time passes
Tick ==
  /\ now < MaxClock
  /\ now' = now + 1
  /\ UNCHANGED <<navVars, held, navTextReqs, textOut, voice, conversation, history, display, sent, lastChat>>

\* the sessions the typing signal is tried on, by the methods they expose
ActivityKinds ==
  { {}, {"interrupt"}, {"sendText", "keepAlive", "interrupt"},
    {"sendTypingIndicator", "keepAlive"}, {"sendUserActivity", "sendTypingIndicator"} }

\* the values onTyping passes for isTyping
TypingValues == { Bool(TRUE), Bool(FALSE) }

\* transcriptManager.setConversation(conversation), over the given sessions
SetConversationTo(kinds) ==
  /\ RouterExists
  /\ \E c \in {Unbound} \cup { Session(ms) : ms \in kinds } :
       conversation' = c
  /\ UNCHANGED <<navVars, held, navTextReqs, textOut, voice, history, display, sent, now, lastChat>>

\* transcriptManager.setConversation(conversation)
SetConversation ==
  /\ RouterExists
  /\ \E c \in {Unbound} \cup { Session(ms) : ms \in SessionKinds } :
       conversation' = c
  /\ UNCHANGED <<navVars, held, navTextReqs, textOut, voice, history, display, sent, now, lastChat>>

\* onTyping: transcriptManager.signalUserActivity(isTyping)
UserActivitySignalled ==
  /\ RouterExists
  /\ \E isTyping \in TypingValues, throws \in BOOLEAN :
       lastChat' = SignalUserActivity(isTyping, throws)
  /\ UNCHANGED <<navVars, held, navTextReqs, textOut, voice, conversation, history, display, sent, now>>

\* transcriptManager.getConversationHistory(): a copy is handed out
GetConversationHistory ==
  /\ RouterExists
  /\ lastChat' = Chat("getConversationHistory", NoPayload, Undef, "", Null, InvalidDate, <<>>)
  /\ UNCHANGED <<navVars, held, navTextReqs, textOut, voice, conversation, history, display, sent, now>>

\* transcriptManager.clearHistory(): the history and the display are emptied
ClearHistory ==
  /\ RouterExists
  /\ history' = <<>>
  /\ display' = <<>>
  /\ lastChat' = Chat("clearHistory", NoPayload, Undef, "", Null, InvalidDate, <<>>)
  /\ UNCHANGED <<navVars, held, navTextReqs, textOut, voice, conversation, sent, now>>

\* onMessage: transcriptManager.handleVoiceMessage(message)
VoiceMessageReceived ==
  /\ RouterExists
  /\ \E m \in RouterPayloads :
       LET r == HandleVoiceMessage(m)
       IN /\ Len(r.display) + PendingSends(sent) <= MaxMessages
          /\ history' = r.history
          /\ display' = r.display
          /\ lastChat' = r.chat
  /\ UNCHANGED <<navVars, held, navTextReqs, textOut, voice, conversation, sent, now>>

\* transcriptManager.sendTextMessage(text), up to its await
TextMessageSent ==
  /\ RouterExists
  /\ \E text \in Texts, throws \in Failures :
       LET r == SendTextMessage(text, throws)
       IN /\ Len(r.display) + PendingSends(r.sent) <= MaxMessages
          /\ Len(r.sent) <= MaxMessages
          /\ history' = r.history
          /\ display' = r.display
          /\ sent' = r.sent
          /\ lastChat' = r.chat
  /\ UNCHANGED <<navVars, held, navTextReqs, textOut, voice, conversation, now>>

\* the promise of the send method settles; a rejection is caught and shown,
\* unless it carries null or undefined: then the catch block itself throws
DeliverySettled ==
  \E i \in 1 .. Len(sent), rejects \in Failures :
    /\ sent[i].state = "pending"
    /\ sent' = [sent EXCEPT ![i].state = IF rejects = "no" THEN "delivered" ELSE "failed"]
    /\ display' = IF rejects = "value"
                    THEN AddMessage(display, "system", SendError, Date(now))
                    ELSE display
    /\ lastChat' = Chat("deliverySettled", NoPayload, Str(sent[i].text), "", Null, InvalidDate,
                        CASE rejects = "no" -> <<>>
                          [] rejects = "value" -> <<"error">>
                          [] OTHER -> <<"rejected">>)
    /\ UNCHANGED <<navVars, held, navTextReqs, textOut, voice, conversation, history, now>>

\* the voice button exists once VoiceControls.render has run
VoiceButtonExists == phase \in {"firstRender", "ready", "initFailed"}

\* a click on the voice button: toggleVoice() up to its await
VoiceToggled ==
  /\ VoiceButtonExists
  /\ (voice.configured /\ ~(voice.isActive /\ voice.conversation # 0)) => Unused(voice) # {}
  /\ (voice.configured /\ voice.isActive /\ voice.conversation # 0) =>
       ~voice.sessions[voice.conversation].endPending
  /\ voice' = ToggleVoice(voice)
  /\ UNCHANGED <<navVars, held, navTextReqs, textOut, chatVars>>

\* the promise of startSession settles and toggleVoice resumes
StartSessionSettled ==
  /\ \E i \in SessionIds, ok \in BOOLEAN :
       /\ voice.sessions[i].start = "pending"
       /\ voice' = StartSettled(voice, i, ok)
  /\ UNCHANGED <<navVars, held, navTextReqs, textOut, chatVars>>

\* the client library reports the connection of a session it is starting or
\* has started
SessionConnected ==
  /\ \E i \in SessionIds :
       /\ voice.sessions[i].start \in {"pending", "resolved"}
       /\ voice.sessions[i].connect = "no"
       /\ ~voice.sessions[i].ended
       /\ voice' = OnConnect(voice, i)
  /\ UNCHANGED <<navVars, held, navTextReqs, textOut, chatVars>>

\* the timer set by onConnect fires: transcriptManager.setConversation and the
\* notice in the chat, when voiceControls.conversation is set
BindingTimerFired ==
  /\ \E i \in SessionIds :
       /\ voice.sessions[i].timer
       /\ voice' = TimerFired(voice, i)
       /\ IF voice.conversation # 0
            THEN /\ conversation' = Session(VoiceSessionMethods)
                 /\ display' = AddMessage(display, "system", Connected, Date(now))
            ELSE UNCHANGED <<conversation, display>>
  /\ UNCHANGED <<navVars, held, navTextReqs, textOut, history, sent, now, lastChat>>

\* the client library reports that a connected session is over: the user hung
\* up, the agent did, or the connection was lost
SessionDisconnected ==
  /\ \E i \in SessionIds :
       /\ voice.sessions[i].connect = "connected"
       /\ voice' = OnDisconnect(voice, i)
  /\ UNCHANGED <<navVars, held, navTextReqs, textOut, chatVars>>

\* the promise of endSession settles and toggleVoice resumes
EndSessionSettled ==
  /\ \E i \in SessionIds, ok \in BOOLEAN :
       /\ voice.sessions[i].endPending
       /\ voice' = EndSettled(voice, i, ok)
  /\ UNCHANGED <<navVars, held, navTextReqs, textOut, chatVars>>

\* the chat form is submitted: the input is trimmed, an empty one is dropped,
\* onTyping(false) signals the end of typing (it changes nothing the model
\* keeps) and onSubmit gets the text
ChatSubmitted ==
  /\ RouterExists
  /\ \E input \in FormInputs, throws \in {"no", "value"} :
       LET text == Trim(input)
           r == OnSubmit(text, throws)
       IN /\ text # <<>>
          /\ Len(display) < MaxMessages
          /\ Len(r.sent) <= MaxMessages
          /\ history' = r.history
          /\ display' = r.display
          /\ sent' = r.sent
          /\ lastChat' = r.chat
  /\ UNCHANGED <<navVars, held, navTextReqs, textOut, conversation, now, voice>>

\* new StateManager(v), by code that imports the class; the application's own
\* store is not touched
StateManagerConstructed ==
  /\ \E v \in ConstructorArgs :
       last' = Call("new StateManager", BareArg(v), NewStateManager(v), <<>>)
  /\ UNCHANGED <<phase, clientTools, totalPages, currentPage, listeners, regRank,
                 renders, canvasPage, renderErrors, textReqs>>
  /\ UNCHANGED <<ui, otherVars>>

\* last.arg keeps the argument of a call only in the specifications whose
\* properties read it

\* the assembled application: window.pdfController, the buttons, the store and
\* the navigation tools
Next ==
  \/ LoadPDFDone
  \/ LoadPDFFail
  \/ FirstRenderDone
  \/ FirstRenderFail
  \/ RenderDone
  \/ SetCurrentPageCalled(FALSE)
  \/ CallGoToPage
  \/ CallNextPage
  \/ CallPreviousPage
  \/ CallToolNextPage
  \/ CallToolPreviousPage
  \/ ToolGoToPageCalled(FALSE)
  \/ CallToolGetCurrentPage
  \/ CallToolGetTotalPages

Spec == Init /\ [][Next]_vars

\* navigation through the controller and the store while renders succeed, fail
\* and complete late
NextNav ==
  \/ LoadPDFDone
  \/ FirstRenderDone
  \/ FirstRenderFail
  \/ RenderDone
  \/ RenderFail
  \/ SetCurrentPageCalled(FALSE)
  \/ CallGoToPage
  \/ CallNextPage
  \/ CallPreviousPage

SpecNav == Init /\ [][NextNav]_vars

\* the store called with arbitrary arguments
NextStore ==
  \/ LoadPDFDone
  \/ FirstRenderDone
  \/ RenderDone
  \/ RenderFail
  \/ SetCurrentPageCalled(TRUE)

SpecStore == Init /\ [][NextStore]_vars

\* the store with callbacks registered and removed by code that holds it
NextListeners ==
  \/ LoadPDFDone
  \/ FirstRenderDone
  \/ RenderDone
  \/ AddEventListener
  \/ RemoveEventListener
  \/ SetCurrentPageCalled(FALSE)

SpecListeners == Init /\ [][NextListeners]_vars

\* the six client tools, before and after registerClientTools
NextTools ==
  \/ LoadPDFDone
  \/ LoadPDFFail
  \/ FirstRenderDone
  \/ RenderDone
  \/ CallToolNextPage
  \/ CallToolPreviousPage
  \/ ToolGoToPageCalled(TRUE)
  \/ CallToolGetCurrentPage
  \/ CallToolGetTotalPages
  \/ CallToolGetPageText
  \/ TextSettled

SpecTools == Init /\ [][NextTools]_vars

\* the goToPage tool alone
NextGoTo ==
  \/ LoadPDFDone
  \/ FirstRenderDone
  \/ RenderDone
  \/ ToolGoToPageCalled(TRUE)

SpecGoTo == Init /\ [][NextGoTo]_vars

\* a caller that keeps the tool object it discovered
NextHeld ==
  \/ LoadPDFDone
  \/ FirstRenderDone
  \/ RenderDone
  \/ Discover
  \/ CallHeldNextPage
  \/ CallHeldPreviousPage
  \/ CallHeldGetCurrentPage

SpecHeld == Init /\ [][NextHeld]_vars

\* text extraction through the controller and through the tool, while the
\* page changes
NextText ==
  \/ LoadPDFDone
  \/ FirstRenderDone
  \/ RenderDone
  \/ CallNextPage
  \/ CallToolGetPageText
  \/ TextSettled
  \/ CallGetPageText
  \/ NavTextSettled

SpecText == Init /\ [][NextText]_vars

\* the message normalizer over the shapes of inbound messages, as time passes
NextNormalize ==
  \/ NormalizeMessage
  \/ Tick

SpecNormalize == Init /\ [][NextNormalize]_vars

\* the transcript router: inbound messages, outbound text, sessions bound and unbound
NextRouter ==
  \/ LoadPDFDone
  \/ FirstRenderDone
  \/ SetConversation
  \/ VoiceMessageReceived
  \/ TextMessageSent
  \/ DeliverySettled

SpecRouter == Init /\ [][NextRouter]_vars

\* the read side of window.pdfController, while the page changes
NextApi ==
  \/ LoadPDFDone
  \/ FirstRenderDone
  \/ RenderDone
  \/ CallNextPage
  \/ CallPreviousPage
  \/ CallGetCurrentPage
  \/ CallGetTotalPages

SpecApi == Init /\ [][NextApi]_vars

\* the Previous and Next buttons and the keyboard
NextKeys ==
  \/ LoadPDFDone
  \/ FirstRenderDone
  \/ RenderDone
  \/ CallNextPage
  \/ CallPreviousPage
  \/ KeyDown

SpecKeys == Init /\ [][NextKeys]_vars

\* the typing signal, on sessions bound and unbound, beside outbound text
NextActivity ==
  \/ LoadPDFDone
  \/ FirstRenderDone
  \/ SetConversationTo(ActivityKinds)
  \/ TextMessageSent
  \/ UserActivitySignalled

SpecActivity == Init /\ [][NextActivity]_vars

\* every operation of the transcript router
NextHistory ==
  \/ LoadPDFDone
  \/ FirstRenderDone
  \/ SetConversationTo({{"sendText", "keepAlive"}})
  \/ VoiceMessageReceived
  \/ TextMessageSent
  \/ DeliverySettled
  \/ UserActivitySignalled
  \/ GetConversationHistory
  \/ ClearHistory

SpecHistory == Init /\ [][NextHistory]_vars

\* the store's constructor called with arbitrary arguments, beside the
\* application's own store
NextConstruct ==
  \/ LoadPDFDone
  \/ FirstRenderDone
  \/ RenderDone
  \/ CallNextPage
  \/ StateManagerConstructed

SpecConstruct == Init /\ [][NextConstruct]_vars

\* the store with callbacks that call it back while they are notified
NextReentrant ==
  \/ LoadPDFDone
  \/ FirstRenderDone
  \/ RenderDone
  \/ AddEventListener
  \/ SetCurrentPageCalled(FALSE)
  \/ ReentrantSetCurrentPageCalled

SpecReentrant == Init /\ [][NextReentrant]_vars

\* the voice button, the sessions it starts and ends, and the chat form
NextVoice ==
  \/ PDFLoaded({1})
  \/ FirstRenderDone
  \/ FirstRenderFail
  \/ VoiceToggled
  \/ StartSessionSettled
  \/ SessionConnected
  \/ BindingTimerFired
  \/ SessionDisconnected
  \/ EndSessionSettled
  \/ ChatSubmitted

SpecVoice == Init /\ [][NextVoice]_vars

\* the voice button and its sessions alone; the voice controls never read the
\* page count, and the document has one page here
NextToggle ==
  \/ PDFLoaded({1})
  \/ FirstRenderDone
  \/ FirstRenderFail
  \/ VoiceToggled
  \/ StartSessionSettled
  \/ SessionConnected
  \/ BindingTimerFired
  \/ SessionDisconnected
  \/ EndSessionSettled

SpecToggle == Init /\ [][NextToggle]_vars

\* the chat form, before and after a session is handed to the router
NextChatForm ==
  \/ PDFLoaded({1})
  \/ FirstRenderDone
  \/ VoiceToggled
  \/ StartSessionSettled
  \/ SessionConnected
  \/ BindingTimerFired
  \/ ChatSubmitted

SpecChatForm == Init /\ [][NextChatForm]_vars

\* the voice button and its sessions, where a timer that is set does fire
SpecVoiceLive == Init /\ [][NextToggle]_vars /\ WF_vars(BindingTimerFired)

----------------------------------------------------------------------------
(* Properties *)

StoreExists == phase \in {"firstRender", "ready", "initFailed"}

\* a step that made a call (only calls write last)
Called == last' # last

NavOps == {"setCurrentPage", "goToPage", "nextPage", "previousPage"}
ToolOps == {"tool.nextPage", "tool.previousPage", "tool.goToPage",
            "tool.getCurrentPage", "tool.getTotalPages", "tool.getPageText"}

ReturnedTrue(call) == call.ret.kind = "bool" /\ call.ret.ok
ReturnedFalse(call) == call.ret.kind = "bool" /\ ~call.ret.ok

\* C1: once the store exists, 1 <= currentPage <= totalPages in every reachable
\* state, whatever calls were made with whatever arguments
C1_PageInRange ==
  StoreExists => 1 <= currentPage /\ currentPage <= totalPages

\* a rejected call has just been made on the last page of a deck of MaxPages
C1_Witness ==
  /\ StoreExists
  /\ totalPages = MaxPages
  /\ currentPage = totalPages
  /\ last.op \in {"setCurrentPage", "goToPage", "tool.goToPage"}
  /\ last.before = currentPage
  /\ ~last.ret.ok

\* the integers 1..totalPages other than the page before the call
ValidTarget(v, before) ==
  /\ v.t = "number"
  /\ v.h = 0
  /\ 1 <= v.k
  /\ v.k <= totalPages
  /\ v.k # before

\* C2: setCurrentPage(n) returns true iff n is an integer in 1..totalPages other
\* than the current page, and a call that returns false leaves currentPage as it was
C2_SetCurrentPageIff ==
  last.op = "setCurrentPage" =>
    /\ last.ret.kind = "bool"
    /\ last.ret.ok <=> ValidTarget(last.arg.pn, last.before)
    /\ ~last.ret.ok => currentPage = last.before

\* on the last page of a deck of MaxPages, reached by an accepted call,
\* setCurrentPage has rejected a non-integer number that lies within the range
C2_Witness ==
  /\ last.op = "setCurrentPage"
  /\ last.arg.pn = Frac(1)
  /\ totalPages = MaxPages
  /\ currentPage = MaxPages
  /\ ReturnedFalse(last)

\* C4: canGoNext() is false iff currentPage = totalPages, and canGoPrevious() is
\* false iff currentPage = 1
C4_CanGoBoundaries ==
  StoreExists =>
    /\ (~CanGoNext) <=> (currentPage = totalPages)
    /\ (~CanGoPrevious) <=> (currentPage = 1)

\* nextPage has just reached the last page of a deck of several pages
C4_Witness ==
  /\ last.op = "nextPage"
  /\ ReturnedTrue(last)
  /\ totalPages > 1
  /\ currentPage = totalPages

\* C5: nextPage() returns true and moves exactly one page forward iff there was
\* a next page before the call, and otherwise returns false, changes nothing
\* and delivers no event; previousPage() likewise, one page back
C5_NextPrevious ==
  /\ last.op \in {"nextPage", "previousPage"} => last.ret.kind = "bool"
  /\ last.op = "nextPage" =>
       IF last.before < totalPages
         THEN last.ret.ok /\ currentPage = last.before + 1 /\ last.log # <<>>
         ELSE ~last.ret.ok /\ currentPage = last.before /\ last.log = <<>>
  /\ last.op = "previousPage" =>
       IF last.before > 1
         THEN last.ret.ok /\ currentPage = last.before - 1 /\ last.log # <<>>
         ELSE ~last.ret.ok /\ currentPage = last.before /\ last.log = <<>>

\* previousPage has just moved back from the last page of a deck of MaxPages to
\* a page that is not the first
C5_Witness ==
  /\ last.op = "previousPage"
  /\ ReturnedTrue(last)
  /\ last.before = MaxPages
  /\ currentPage = MaxPages - 1
  /\ currentPage > 1
\* the callbacks an event was delivered to, in order of invocation
Invoked(log) == [i \in 1 .. Len(log) |-> log[i].l]

\* C3: a setCurrentPage call that returns true delivers to every registered
\* listener exactly one event carrying the page before the call, the new page
\* and the total; a call that returns false delivers no event to any listener
C3_OneEventPerChange ==
  [][(Called /\ last'.op = "setCurrentPage") =>
       IF ReturnedTrue(last')
         THEN /\ Len(last'.log) = Len(listeners)
              /\ \A l \in Range(listeners) :
                   Cardinality({ i \in 1 .. Len(last'.log) : last'.log[i].l = l }) = 1
              /\ \A i \in 1 .. Len(last'.log) :
                   last'.log[i].data = [currentPage |-> currentPage',
                                        previousPage |-> currentPage,
                                        totalPages |-> totalPages]
              /\ currentPage' # currentPage
         ELSE /\ ReturnedFalse(last')
              /\ last'.log = <<>>
              /\ currentPage' = currentPage]_vars

\* an accepted call has notified the three listeners of the application and a
\* callback registered on the store
C3_Witness ==
  /\ last.op = "setCurrentPage"
  /\ ReturnedTrue(last)
  /\ Len(last.log) = 4
  /\ last.log[4].l \in Callbacks
  /\ last.log[4].data.previousPage = last.before
  /\ last.log[4].data.currentPage = currentPage

\* C6: for each accepted page change the listeners still registered are invoked
\* in the order in which they were registered, whatever callbacks were added
\* and removed before
C6_RegistrationOrder ==
  [][Called =>
       /\ \A i \in 1 .. Len(last'.log) : regRank[last'.log[i].l] > 0
       /\ \A i, j \in 1 .. Len(last'.log) :
            i < j => regRank[last'.log[i].l] < regRank[last'.log[j].l]]_vars

\* an accepted change has notified all five listeners, cbB (registered first)
\* before cbA
C6_Witness ==
  /\ ReturnedTrue(last)
  /\ Invoked(last.log) = <<"render", "ui", "sidebar", "cbB", "cbA">>

\* C7: when a listener throws while being notified, every listener registered
\* after it is still invoked for the same event, currentPage keeps the new
\* value and setCurrentPage returns true
C7_ListenerIsolation ==
  [][(Called /\ \E i \in 1 .. Len(last'.log) : last'.log[i].threw) =>
       /\ \A l \in Range(listeners) :
            \E j \in 1 .. Len(last'.log) :
              last'.log[j].l = l /\ last'.log[j].data = last'.log[1].data
       /\ currentPage' = last'.log[1].data.currentPage
       /\ currentPage' # currentPage
       /\ ReturnedTrue(last')]_vars

\* a listener threw and the one registered after it was invoked without throwing
C7_Witness ==
  /\ last.op = "setCurrentPage"
  /\ Len(last.log) = 5
  /\ last.log[4].threw
  /\ ~last.log[5].threw
  /\ currentPage # last.before

\* a render started by the render listener, or the first render, settles
RenderSettles ==
  \/ Pending(renders') < Pending(renders)
  \/ phase = "firstRender" /\ phase' # phase

\* C8: a render that fails or completes late changes neither currentPage nor
\* the result of the call that started it; an accepted change returns true and
\* notifies the listeners registered after the render listener; after a render
\* failure navigation still works
C8_RenderDecoupled ==
  [][/\ RenderSettles => currentPage' = currentPage /\ last' = last
     /\ (Called /\ last'.op \in NavOps /\ currentPage' # currentPage) =>
          /\ ReturnedTrue(last')
          /\ \A l \in Range(listeners) :
               regRank[l] > regRank["render"] =>
                 \E i \in 1 .. Len(last'.log) : last'.log[i].l = l
     /\ (Called /\ last'.op = "nextPage" /\ renderErrors /\ CanGoNext) =>
          ReturnedTrue(last') /\ currentPage' = currentPage + 1
     /\ (Called /\ last'.op = "previousPage" /\ renderErrors /\ CanGoPrevious) =>
          ReturnedTrue(last') /\ currentPage' = currentPage - 1]_vars

\* after a render failure a nextPage call was accepted; every render has
\* settled and the canvas shows a page that is not the current one
C8_Witness ==
  /\ renderErrors
  /\ last.errorsBefore
  /\ last.op = "nextPage"
  /\ ReturnedTrue(last)
  /\ Pending(renders) = 0
  /\ canvasPage > 0
  /\ canvasPage # currentPage

\* C9: each of the six tools, stub or live, for every argument value, resolves
\* to an object with a boolean success and a string message, and never throws
\* or rejects
C9_ToolsAlwaysResolve ==
  last.op \in ToolOps =>
    /\ last.ret.kind = "object"
    /\ last.ret.ok \in BOOLEAN
    /\ last.ret.msg.text # ""

\* a string that denotes a number throughout, and the number it denotes
Unsigned(s) ==
  LET t == SkipBlanks(s)
  IN IF t # <<>> /\ Head(t) \in {"-", "+"} THEN Tail(t) ELSE t

IsNumericString(s) ==
  /\ Unsigned(s) # <<>>
  /\ \A i \in 1 .. Len(Unsigned(s)) : Unsigned(s)[i] \in Digits

\* a value that is not numeric, or that lies outside [1, totalPages]
InvalidPageInput(v) ==
  CASE v.t = "number" -> Less(v, 1) \/ Greater(v, totalPages)
    [] v.t = "string" ->
         \/ ~IsNumericString(v.s)
         \/ Less(ParseIntString(v.s), 1)
         \/ Greater(ParseIntString(v.s), totalPages)
    [] OTHER -> TRUE

\* C10: the live goToPage tool, given a bare value or an object whose
\* pageNumber is non-numeric or outside [1, totalPages], returns success:false
\* with a message starting "Invalid page number", leaves currentPage unchanged
\* and causes no pageChanged event (stated of the calls that resolve; a call
\* that rejects is the case of C9)
C10_InvalidInputRefused ==
  (/\ last.op = "tool.goToPage"
   /\ last.ret.kind = "object"
   /\ last.ret # StubTool.ret
   /\ InvalidPageInput(last.arg.pn)) =>
    /\ ~last.ret.ok
    /\ last.ret.msg.text = "Invalid page number. Must be between 1 and"
    /\ currentPage = last.before
    /\ last.log = <<>>

\* a value that names a page: an integer, or a string that is a decimal integer
IsPageValue(v) ==
  \/ v.t = "number" /\ v.h = 0
  \/ v.t = "string" /\ IsNumericString(v.s)

NumericStringValue(s) ==
  IF Head(SkipBlanks(s)) = "-"
    THEN 0 - ReadDigits(Unsigned(s), 0)
    ELSE ReadDigits(Unsigned(s), 0)

PageValue(v) == IF v.t = "number" THEN v.k ELSE NumericStringValue(v.s)

\* C11: the live goToPage tool, given a page p as a number or a numeric string,
\* bare or in {pageNumber: p}, returns {success:true, currentPage:p, totalPages,
\* message:"Jumped to page p of totalPages"} and leaves the store at page p iff
\* 1 <= p <= totalPages and p is not the current page; otherwise it fails and
\* the store stays where it was
C11_GoToPageTool ==
  (last.op = "tool.goToPage" /\ last.ret # StubTool.ret /\ IsPageValue(last.arg.pn)) =>
    LET p == PageValue(last.arg.pn)
        good == 1 <= p /\ p <= totalPages /\ p # last.before
    IN /\ good <=>
            /\ last.ret = Result(TRUE, Msg2("Jumped to page", p, totalPages), p, totalPages)
            /\ currentPage = p
       /\ ~good => ~last.ret.ok /\ currentPage = last.before

\* goToPage({pageNumber: "2"}) from page 1 has succeeded with currentPage 2
C11_Witness ==
  /\ last.op = "tool.goToPage"
  /\ last.arg = ObjArg(Str(<<"2">>))
  /\ last.before = 1
  /\ last.ret.ok
  /\ last.ret.cur = 2
  /\ last.ret.msg = Msg2("Jumped to page", 2, totalPages)
  /\ currentPage = 2

HeldOps == {"held.nextPage", "held.previousPage", "held.getCurrentPage"}

\* C12: once registerClientTools has run, a caller that read the tool set
\* during the stub phase and kept it invokes the live implementations, and the
\* six tool names are the same before and after
C12_HeldToolsGoLive ==
  [][(Called /\ last'.op \in HeldOps /\ clientTools = "live") =>
       /\ last'.ret # StubTool.ret
       /\ StubToolNames = LiveToolNames]_vars

\* a getPageText request is made, or settles
TextRequested(reqs) == Pending(reqs') > Pending(reqs)
TextSettles(reqs) == Pending(reqs') < Pending(reqs)

\* C13: NavigationController.getPageText asks for the text of the store's
\* current page and rejects when the render surface fails; the getPageText
\* tool turns that failure into a {success:false, message} result without
\* rejecting; neither changes currentPage
C13_GetPageText ==
  [][/\ TextRequested(navTextReqs) =>
          /\ navTextReqs' = [navTextReqs EXCEPT ![currentPage] = @ + 1]
          /\ currentPage' = currentPage
     /\ TextRequested(textReqs) =>
          /\ textReqs' = [textReqs EXCEPT ![currentPage] = @ + 1]
          /\ currentPage' = currentPage
     /\ TextSettles(navTextReqs) =>
          /\ textOut'.who = "nav"
          /\ navTextReqs[textOut'.page] > 0
          /\ last'.op = "getPageText"
          /\ last'.ret = IF textOut'.ok THEN Resolved(textOut'.page) ELSE Rejected
          /\ currentPage' = currentPage
     /\ TextSettles(textReqs) =>
          /\ textOut'.who = "tool"
          /\ textReqs[textOut'.page] > 0
          /\ last'.op = "tool.getPageText"
          /\ last'.ret.kind = "object"
          /\ last'.ret.ok = textOut'.ok
          /\ last'.ret.msg.text # ""
          /\ last'.ret.msg.a = textOut'.page
          /\ currentPage' = currentPage]_vars

\* the tool has reported a failed extraction for a page that was current when
\* it was called and is not current any more
C13_Witness ==
  /\ textOut = [who |-> "tool", page |-> 1, ok |-> FALSE]
  /\ last.op = "tool.getPageText"
  /\ last.ret.kind = "object"
  /\ ~last.ret.ok
  /\ currentPage = 2

\* the rules of role inference, in the order they are tried
SaysUser(m) == m.source = "user" \/ m.type = "user_transcript"
SaysAgent(m) == m.source = "ai" \/ m.type = "agent_response"
RoleIsUser(m) == m.role = "user"

InferredRole(m) ==
  CASE SaysUser(m) -> "user"
    [] ~SaysUser(m) /\ SaysAgent(m) -> "agent"
    [] ~SaysUser(m) /\ ~SaysAgent(m) /\ RoleIsUser(m) -> "user"
    [] OTHER -> "agent"

\* C14: the inferred role is decided by the first matching rule: source "user"
\* or type "user_transcript" gives user; source "ai" or type "agent_response"
\* gives agent; role "user" gives user; anything else gives agent
C14_RoleOrder ==
  lastChat.op = "normalize" => lastChat.role = InferredRole(lastChat.payload)

\* {source: "ai", role: "user"} has been normalized to agent
C14_Witness ==
  /\ lastChat.op = "normalize"
  /\ lastChat.payload.source = "ai"
  /\ lastChat.payload.type = Absent
  /\ lastChat.payload.role = "user"
  /\ lastChat.role = "agent"

ContentFields == <<"message", "text", "content", "transcript">>

NonEmptyString(v) == v.t = "string" /\ v.s # <<>>

\* the first non-empty string among the content fields, else the message
\* itself if it is a string, else null
FirstContent(m) ==
  LET hits == { i \in 1 .. Len(ContentFields) : NonEmptyString(m[ContentFields[i]]) }
  IN IF hits # {}
       THEN m[ContentFields[CHOOSE i \in hits : \A j \in hits : i <= j]]
     ELSE IF m.self.t = "string" THEN m.self
     ELSE Null

\* C15: the extracted content is the first non-empty string among message,
\* text, content, transcript in that order, else the payload itself if it is a
\* string, else null; an empty or non-string field is skipped
C15_ContentOrder ==
  lastChat.op = "normalize" => lastChat.content = FirstContent(lastChat.payload)

\* a message whose message field is empty, whose text is no string and whose
\* content and transcript are strings has been given its content field
C15_Witness ==
  /\ lastChat.op = "normalize"
  /\ lastChat.payload.message = Str(<<>>)
  /\ lastChat.payload.text = Obj
  /\ lastChat.payload.content = Str(<<"c">>)
  /\ lastChat.payload.transcript = Str(<<"r">>)
  /\ lastChat.content = Str(<<"c">>)

\* a TranscriptManager call of the given kind has just been made
ChatStep(op) ==
  /\ lastChat'.op = op
  /\ lastChat' # lastChat \/ history' # history \/ display' # display \/ sent' # sent

\* C16: handleVoiceMessage appends exactly one entry (inferred role, extracted
\* content) to the history and exactly one to the display when a content string
\* is extracted, and leaves both as they were iff none is (null payloads and
\* control messages included)
C16_HandleVoiceMessage ==
  [][ChatStep("handleVoiceMessage") =>
       LET m == lastChat'.payload
           content == IF Truthy(m.self) THEN FirstContent(m) ELSE Null
       IN IF NonEmptyString(content)
            THEN /\ history' = Append(history, [role |-> InferredRole(m),
                                                content |-> content.s,
                                                timestamp |-> lastChat'.timestamp])
                 /\ display' = Append(display, [role |-> InferredRole(m),
                                                content |-> EscapeHtml(content.s),
                                                timestamp |-> lastChat'.timestamp])
            ELSE history' = history /\ display' = display]_vars

\* a control message has been dropped after a message with content was shown
C16_Witness ==
  /\ lastChat.op = "handleVoiceMessage"
  /\ lastChat.payload = ControlMessage
  /\ Len(history) = 1
  /\ Len(display) = 1
  /\ history[1].role = "agent"
  /\ history[1].content = <<"<">>
  /\ display[1].content = <<"&", "l", "t", ";">>

\* the message carries a usable timestamp or time field
HasTime(m) == Truthy(m.timestamp) \/ Truthy(m.time)

\* the same message is normalized again (a step in which no time passes: the
\* clock moves between the calls, never during one)
NormalizedAgain ==
  /\ lastChat.op = "normalize"
  /\ lastChat'.op = "normalize"
  /\ lastChat'.payload = lastChat.payload
  /\ now' = now

\* C17: normalizing the same inbound message twice yields the same role, the
\* same content and the same timestamp, also for messages that carry neither
\* timestamp nor time
C17_SameTwice ==
  [][NormalizedAgain =>
       /\ lastChat'.role = lastChat.role
       /\ lastChat'.content = lastChat.content
       /\ lastChat'.timestamp = lastChat.timestamp]_vars

\* C17, amended: normalizing the same inbound message twice yields the same
\* role and the same content, and the same timestamp when the message carries
\* a non-empty, non-zero timestamp or time; otherwise the timestamp is the
\* time of each processing
C17_SameTwiceGivenTime ==
  [][NormalizedAgain =>
       /\ lastChat'.role = lastChat.role
       /\ lastChat'.content = lastChat.content
       /\ HasTime(lastChat.payload) => lastChat'.timestamp = lastChat.timestamp
       /\ ~HasTime(lastChat.payload) => lastChat'.timestamp = Date(now)]_vars

\* a message with a zero timestamp and a time field has been normalized, after
\* time has passed, to the time it carries
C17_Witness ==
  /\ lastChat.op = "normalize"
  /\ lastChat.payload.timestamp = Num(0)
  /\ lastChat.payload.time = Num(7)
  /\ lastChat.timestamp = Date(7)
  /\ now = MaxClock

\* an argument sendTextMessage ignores: no string, empty, or blanks only
BlankText(text) == text.t # "string" \/ Trim(text.s) = <<>>

\* C18: sendTextMessage with an empty, whitespace-only or non-string argument
\* adds nothing to the history, nothing to the display and invokes no method
\* of the session, bound or unbound
C18_BlankTextIgnored ==
  [][(ChatStep("sendTextMessage") /\ BlankText(lastChat'.text)) =>
       /\ history' = history
       /\ display' = display
       /\ sent' = sent]_vars

\* a blank text has been ignored while the router was bound to a session with
\* a send method and had a message on display
C18_Witness ==
  /\ lastChat.op = "sendTextMessage"
  /\ lastChat.text = Str(<<" ">>)
  /\ conversation.bound
  /\ FirstMethod(conversation.methods) # "none"
  /\ Len(display) = 1
  /\ sent = <<>>

\* C19: sendTextMessage with non-blank text appends exactly one user entry with
\* the trimmed text to the history and to the display before any delivery
\* attempt, bound or unbound, whatever becomes of the delivery
C19_UserEntryFirst ==
  [][(ChatStep("sendTextMessage") /\ ~BlankText(lastChat'.text)) =>
       LET trimmed == Trim(lastChat'.text.s)
           added == SubSeq(display', Len(display) + 1, Len(display'))
       IN /\ history' = Append(history, [role |-> "user", content |-> trimmed,
                                         timestamp |-> Date(now)])
          /\ Len(display') > Len(display)
          /\ SubSeq(display', 1, Len(display)) = display
          /\ added[1] = [role |-> "user", content |-> EscapeHtml(trimmed),
                         timestamp |-> Date(now)]
          /\ \A i \in 2 .. Len(added) : added[i].role # "user"
          /\ Len(lastChat'.steps) >= 2
          /\ lastChat'.steps[1] = "history"
          /\ lastChat'.steps[2] = "display"]_vars

\* the text " hi " was recorded as "hi" and sent, and the delivery failed
C19_Witness ==
  /\ lastChat.op = "deliverySettled"
  /\ lastChat.steps = <<"error">>
  /\ history = <<[role |-> "user", content |-> <<"h", "i">>, timestamp |-> Date(now)]>>
  /\ Len(display) = 2
  /\ display[1].role = "user"
  /\ display[2].content = SendError
  /\ Len(sent) = 1
  /\ sent[1].text = <<"h", "i">>
  /\ sent[1].state = "failed"

\* C20: sendTextMessage with non-blank text, unbound or bound to a session with
\* none of the probed methods, shows exactly one system entry describing the
\* degraded mode after the user entry, invokes no send method and completes
\* without an error
C20_DegradedNotice ==
  [][(/\ ChatStep("sendTextMessage")
      /\ ~BlankText(lastChat'.text)
      /\ (~conversation.bound \/ FirstMethod(conversation.methods) = "none")) =>
       /\ Len(display') = Len(display) + 2
       /\ SubSeq(display', 1, Len(display)) = display
       /\ display'[Len(display) + 1].role = "user"
       /\ display'[Len(display) + 2] =
            [role |-> "system",
             content |-> IF conversation.bound THEN DisplayOnly ELSE NotConnected,
             timestamp |-> Date(now)]
       /\ Len(history') = Len(history) + 1
       /\ sent' = sent
       /\ lastChat'.steps = <<"history", "display", "notice">>]_vars

\* text sent to a session that has none of the probed methods
C20_Witness ==
  /\ lastChat.op = "sendTextMessage"
  /\ lastChat.steps = <<"history", "display", "notice">>
  /\ conversation = Session({})
  /\ Len(display) = 2
  /\ display[2].content = DisplayOnly
  /\ sent = <<>>

\* the session method a typing signal would reach first ("none": no such method)
FirstAvailable(ms) ==
  IF \E i \in 1 .. Len(ActivityMethods) : ActivityMethods[i] \in ms
    THEN ActivityMethods[CHOOSE i \in 1 .. Len(ActivityMethods) :
                           /\ ActivityMethods[i] \in ms
                           /\ \A j \in 1 .. i - 1 : ActivityMethods[j] \notin ms]
    ELSE "none"

\* the session methods a call invoked, in order
Invocations(steps) == SelectSeq(steps, LAMBDA x : x \notin {"caught", "raised"})

\* C21: signalUserActivity never raises to its caller: unbound it does
\* nothing; bound it invokes at most one session method, the first available
\* of sendUserActivity, sendTypingIndicator, keepAlive, interrupt; an exception
\* of that method is swallowed; the history and the display stay as they were
C21_SignalUserActivity ==
  [][(lastChat'.op = "signalUserActivity" /\ lastChat' # lastChat) =>
       /\ "raised" \notin Range(lastChat'.steps)
       /\ ~conversation.bound => lastChat'.steps = <<>>
       /\ Len(Invocations(lastChat'.steps)) <= 1
       /\ Len(Invocations(lastChat'.steps)) = 1 =>
            Invocations(lastChat'.steps)[1] = FirstAvailable(conversation.methods)
       /\ history' = history
       /\ display' = display
       /\ sent' = sent]_vars

\* with a message in the history, a typing signal has reached keepAlive on a
\* session without the two methods probed first, and keepAlive threw
C21_Witness ==
  /\ lastChat.op = "signalUserActivity"
  /\ lastChat.text = Bool(TRUE)
  /\ conversation = Session({"sendText", "keepAlive", "interrupt"})
  /\ lastChat.steps = <<"keepAlive", "caught">>
  /\ Len(history) > 0

IsPrefix(a, b) == Len(a) <= Len(b) /\ SubSeq(b, 1, Len(a)) = a

\* C22: the router's history is append-only: over every step of every
\* operation (sendTextMessage, handleVoiceMessage, setConversation,
\* signalUserActivity, getConversationHistory, clearHistory) the history
\* before the step is a prefix of the history after it, so that entries are
\* neither removed nor modified
C22_HistoryAppendOnly == [][IsPrefix(history, history')]_vars

\* the page a navigation key leads to from page p
KeyTarget(key, p) ==
  CASE key = "ArrowLeft" -> IF p > 1 THEN p - 1 ELSE p
    [] key = "ArrowRight" -> IF p < totalPages THEN p + 1 ELSE p
    [] key = "Home" -> 1
    [] OTHER -> totalPages

\* C23: pressing the left or right arrow key moves to the previous or next
\* slide, Home or End to the first or last slide, by the page change the
\* Previous and Next buttons make
C23_KeyboardNavigates ==
  last.op = "keydown" => currentPage = KeyTarget(last.arg.pn.s[1], last.before)

\* C24: window.pdfController.getCurrentPage() returns an object {current,
\* total} holding the store's current page and total page count, and
\* window.pdfController.getTotalPages() returns the total as a number
C24_PdfControllerGetters ==
  /\ last.op = "getCurrentPage" =>
       /\ last.ret.kind = "object"
       /\ last.ret.cur = currentPage
       /\ last.ret.tot = totalPages
  /\ last.op = "getTotalPages" =>
       /\ last.ret.kind = "number"
       /\ last.ret.cur = totalPages

\* the operations that reach the store's setter
MovingOps == NavOps \cup {"tool.nextPage", "tool.previousPage", "tool.goToPage"}

\* C25: once the store is constructed no operation changes totalPages, and
\* currentPage changes only in a call that reaches setCurrentPage and has it
\* return true, from whichever source (buttons, sidebar items, PDF links, tool
\* adapter, window.pdfController): the call reports success, its pageChanged
\* event is delivered, and the new page is a page of the deck
C25_FrameEffect ==
  [][StoreExists =>
       /\ totalPages' = totalPages
       /\ currentPage' # currentPage =>
            /\ Called
            /\ last'.op \in MovingOps
            /\ last'.ret.kind \in {"bool", "object"}
            /\ last'.ret.ok
            /\ last'.log # <<>>
            /\ \A i \in 1 .. Len(last'.log) :
                 /\ last'.log[i].data.currentPage = currentPage'
                 /\ last'.log[i].data.previousPage = currentPage
            /\ currentPage' \in 1 .. totalPages]_vars

\* goToPage has moved a full deck from its first page to its last while a
\* render was still pending
C25_Witness ==
  /\ last.op = "goToPage"
  /\ ReturnedTrue(last)
  /\ totalPages = MaxPages
  /\ last.before = 1
  /\ currentPage = totalPages
  /\ Pending(renders) > 0

\* the invocations of the render-triggering listener in a call
RenderCalls(log) == SelectSeq(log, LAMBDA e : e.l = "render")

\* C26: when the render-triggering listener is invoked for an accepted change
\* to page n, the page the store holds and hands it (the event's currentPage
\* is read from the store when the event is emitted) is already n, and the
\* render surface is asked to render page n and nothing else
C26_RenderSeesNewPage ==
  [][(Called /\ last'.op = "setCurrentPage" /\ ReturnedTrue(last')) =>
       LET n == last'.arg.pn.k
       IN /\ currentPage' = n
          /\ Len(RenderCalls(last'.log)) = 1
          /\ RenderCalls(last'.log)[1].data.currentPage = n
          /\ renders' = [renders EXCEPT ![n] = @ + 1]]_vars

\* setCurrentPage(3) on page 1 has been accepted while the render of another
\* page was still pending, and a render of page 3 is now pending as well
C26_Witness ==
  /\ last.op = "setCurrentPage"
  /\ last.arg.pn = Num(3)
  /\ ReturnedTrue(last)
  /\ currentPage = 3
  /\ renders[3] = 1
  /\ renders[2] = 1

\* C27: when the renders started by two successive accepted page changes
\* overlap, then once both have completed the canvas shows the page of the
\* later change, the store's currentPage, in whichever order the two complete
\* (stated of every state in which no render is pending and none has failed:
\* renders that do not overlap complete in the order of the changes)
C27_LaterRenderWins ==
  (phase = "ready" /\ Pending(renders) = 0 /\ ~renderErrors) => canvasPage = currentPage

\* C28: once the presenters are rendered, and after every accepted page change
\* from any source, the page counter shows currentPage of totalPages, Previous
\* is disabled iff currentPage = 1, Next is disabled iff currentPage =
\* totalPages, and at most one sidebar item is highlighted: the item of
\* currentPage, if the list has one
C28_PresentersInStep ==
  /\ StoreExists =>
       /\ ui.counter = <<currentPage, totalPages>>
       /\ ui.prevDisabled <=> currentPage = 1
       /\ ui.nextDisabled <=> currentPage = totalPages
  /\ phase = "ready" =>
       /\ Cardinality(ui.active) <= 1
       /\ ui.active = {currentPage} \cap SlidePages

\* a tool call has moved a full deck from its last page, which has no sidebar
\* item, back to the page before, and the presenters show it
C28_Witness ==
  /\ phase = "ready"
  /\ last.op = "tool.previousPage"
  /\ last.ret.ok
  /\ totalPages = MaxPages
  /\ last.before = MaxPages
  /\ ui.counter = <<MaxPages - 1, MaxPages>>
  /\ ~ui.prevDisabled
  /\ ~ui.nextDisabled
  /\ ui.active = {MaxPages - 1}

\* the send method the claim names for a session: the first it has of
\* sendTextMessage, sendMessage, send, sendUserMessage, sendText
NamedSendMethod(ms) ==
  IF "sendTextMessage" \in ms THEN "sendTextMessage"
  ELSE IF "sendMessage" \in ms THEN "sendMessage"
  ELSE IF "send" \in ms THEN "send"
  ELSE IF "sendUserMessage" \in ms THEN "sendUserMessage"
  ELSE IF "sendText" \in ms THEN "sendText"
  ELSE "none"

\* C29: bound to a session, one sendTextMessage with non-blank text invokes
\* exactly one send method, the first the session has in the order
\* sendTextMessage, sendMessage, send, sendUserMessage, sendText, with the
\* trimmed text, and no other even if the session has several
C29_OneSendMethod ==
  [][(/\ ChatStep("sendTextMessage")
      /\ ~BlankText(lastChat'.text)
      /\ conversation.bound
      /\ NamedSendMethod(conversation.methods) # "none") =>
       /\ Len(sent') = Len(sent) + 1
       /\ SubSeq(sent', 1, Len(sent)) = sent
       /\ sent'[Len(sent')].method = NamedSendMethod(conversation.methods)
       /\ sent'[Len(sent')].text = Trim(lastChat'.text.s)
       /\ Cardinality({ i \in 1 .. Len(lastChat'.steps) : lastChat'.steps[i] = "send" }) = 1]_vars

\* " hi " has gone as "hi" to sendMessage of a session that has sendText as well
C29_Witness ==
  /\ lastChat.op = "sendTextMessage"
  /\ lastChat.text = Str(<<" ", "h", "i", " ">>)
  /\ conversation = Session({"sendMessage", "sendText"})
  /\ sent = <<[method |-> "sendMessage", text |-> <<"h", "i">>, state |-> "pending"]>>

\* C30: when the send method throws or rejects, sendTextMessage does not
\* reject: the user entry it appended stays in the history and the display,
\* exactly one system entry reporting the error is added to the display, and
\* the router stays bound
C30_SendFailureContained ==
  [][/\ (/\ ChatStep("sendTextMessage")
         /\ Len(sent') > Len(sent)
         /\ sent'[Len(sent')].state = "failed") =>
          LET trimmed == Trim(lastChat'.text.s)
          IN /\ "rejected" \notin Range(lastChat'.steps)
             /\ history' = Append(history, [role |-> "user", content |-> trimmed,
                                            timestamp |-> Date(now)])
             /\ display' = display \o
                             <<[role |-> "user", content |-> EscapeHtml(trimmed),
                                timestamp |-> Date(now)],
                               [role |-> "system", content |-> SendError,
                                timestamp |-> Date(now)]>>
             /\ conversation' = conversation
             /\ conversation'.bound
     /\ (ChatStep("deliverySettled") /\ lastChat'.steps # <<>>) =>
          /\ "rejected" \notin Range(lastChat'.steps)
          /\ history' = history
          /\ \E i \in 1 .. Len(history) : history[i].content = lastChat'.text.s
          /\ display' = Append(display, [role |-> "system", content |-> SendError,
                                         timestamp |-> Date(now)])
          /\ conversation' = conversation]_vars

\* C33: constructing the page store succeeds exactly when totalPages is an
\* integer of at least 1, and currentPage is then 1; for any other value
\* (missing, 0, negative, non-integer, not a number) construction raises and no
\* store exists
C33_ConstructionValidated ==
  last.op = "new StateManager" =>
    /\ last.ret.kind \in {"store", "throw"}
    /\ last.ret.kind = "store" <=>
         (NumberIsInteger(last.arg.pn) /\ ~Less(last.arg.pn, 1))
    /\ last.ret.kind = "store" => last.ret.cur = 1

\* C38: a successful result of the getPageText tool names in pageNumber the
\* page whose text was extracted, which is the page that was current when the
\* tool was called, even when the page has changed while the extraction was
\* pending
C38_PageNumberOfExtraction ==
  [][(TextSettles(textReqs) /\ last'.ret.ok) =>
       /\ last'.op = "tool.getPageText"
       /\ last'.ret.pageNumber = textOut'.page
       /\ textReqs[last'.ret.pageNumber] = textReqs'[last'.ret.pageNumber] + 1
       /\ last'.ret.msg.a = last'.ret.pageNumber]_vars

\* the tool has returned the text of page 1, asked for on page 1, after the
\* presentation moved to page 2
C38_Witness ==
  /\ last.op = "tool.getPageText"
  /\ last.ret.kind = "object"
  /\ last.ret.ok
  /\ last.ret.pageNumber = 1
  /\ textOut = [who |-> "tool", page |-> 1, ok |-> TRUE]
  /\ currentPage = 2

\* C39: the registered nextPage tool answers success:false, "Already on last
\* page", only when the store was on its last page, and the registered
\* previousPage tool answers success:false, "Already on first page", only when
\* it was on page 1; in every other state they answer success:true; and the
\* currentPage they report is the store's page after the call
C39_BoundaryResults ==
  [][(Called /\ clientTools = "live") =>
       /\ last'.op = "tool.nextPage" =>
            /\ last'.ret.kind = "object"
            /\ last'.ret.ok <=> currentPage # totalPages
            /\ ~last'.ret.ok => last'.ret.msg.text = "Already on last page"
            /\ last'.ret.cur = currentPage'
       /\ last'.op = "tool.previousPage" =>
            /\ last'.ret.kind = "object"
            /\ last'.ret.ok <=> currentPage # 1
            /\ ~last'.ret.ok => last'.ret.msg.text = "Already on first page"
            /\ last'.ret.cur = currentPage']_vars

\* the nextPage tool has moved a presentation of three pages from page 2 to
\* its last page and reported page 3
C39_Witness ==
  /\ clientTools = "live"
  /\ last.op = "tool.nextPage"
  /\ last.ret.ok
  /\ last.before = 2
  /\ last.ret.cur = 3
  /\ currentPage = 3
  /\ totalPages = 3

\* h is a subsequence of d, entries compared by role and content
RECURSIVE IsSubsequence(_, _)
IsSubsequence(h, d) ==
  IF h = <<>> THEN TRUE
  ELSE IF d = <<>> THEN FALSE
  ELSE IF Head(h).role = Head(d).role /\ Head(h).content = Head(d).content
    THEN IsSubsequence(Tail(h), Tail(d))
  ELSE IsSubsequence(h, Tail(d))

\* C40: after any sequence of sendTextMessage, handleVoiceMessage,
\* clearHistory and system notices, the router's history is a subsequence of
\* the display's messages (every history entry has a display entry with the
\* same role and content, in the same relative order), and every history
\* entry has role user or agent
C40_HistoryWithinDisplay ==
  /\ IsSubsequence(history, display)
  /\ \A i \in 1 .. Len(history) : history[i].role \in {"user", "agent"}

\* the events of a delivery log that listener l received, in delivery order
ReceivedBy(log, l) == SelectSeq(log, LAMBDA e : e.l = l)

\* C37: the pageChanged events a listener receives form a chain in delivery
\* order, each event's previousPage being the currentPage of the event the
\* listener received just before, and once the outermost setCurrentPage has
\* returned the currentPage of the last event received is the store's
\* currentPage, also when a listener calls setCurrentPage while it is notified
C37_EventChain ==
  [][(Called /\ last'.op = "setCurrentPage") =>
       \A l \in AllListeners :
         LET got == ReceivedBy(last'.log, l)
         IN /\ \A i \in 1 .. Len(got) - 1 :
                 got[i + 1].data.previousPage = got[i].data.currentPage
            /\ got # <<>> => got[Len(got)].data.currentPage = currentPage']_vars

\* a step in which the timer of onConnect fired for some session
TimerStep == \E i \in SessionIds : voice.sessions[i].timer /\ ~voice'.sessions[i].timer

\* a step of the chat form: the chat changes and the voice controls do not
FormStep ==
  /\ voice' = voice
  /\ phase' = phase
  /\ <<history, display, sent, lastChat>>' # <<history, display, sent, lastChat>>

\* C31: the router starts Unbound and becomes Bound only through
\* setConversation; text submitted through the chat form while it is Unbound
\* reaches neither sendTextMessage nor a send method of a session, and yields
\* exactly one system notice in the display and no new history entry
C31_UnboundFormSubmit ==
  [][/\ phase = "loading" => ~conversation.bound
     /\ (~conversation.bound /\ conversation'.bound) =>
          /\ TimerStep
          /\ voice.conversation # 0
          /\ voice'.bound = voice.conversation
     /\ (FormStep /\ ~conversation.bound) =>
          /\ lastChat'.op = "onSubmit"
          /\ sent' = sent
          /\ history' = history
          /\ display' = Append(display, [role |-> "system", content |-> NotActive,
                                         timestamp |-> Date(now)])]_vars

\* the form was submitted while the first session was still being started:
\* one system notice, nothing in the history, nothing sent
C31_Witness ==
  /\ lastChat.op = "onSubmit"
  /\ ~conversation.bound
  /\ voice.sessions[1].start = "pending"
  /\ Len(display) = 1
  /\ display[1].role = "system"
  /\ display[1].content = NotActive
  /\ history = <<>>
  /\ sent = <<>>

\* a step in which the promise of startSession was rejected for session i
StartRejected(i) ==
  voice.sessions[i].start = "pending" /\ voice'.sessions[i].start = "rejected"

\* a step in which the promise of endSession was rejected for session i
EndRejected(i) ==
  /\ voice.sessions[i].endPending
  /\ ~voice'.sessions[i].endPending
  /\ ~voice'.sessions[i].ended

\* a click on the button while no configuration is set
NotReadyClick == ~voice.configured /\ phase' = phase /\ voice' # voice

\* C32: toggleVoice never raises: before setConversationConfig it shows
\* "Not Ready" and starts no session; when startSession fails, conversation is
\* null and isActive false afterwards and a later toggleVoice attempts a new
\* start; when endSession fails, the status shows "Error" and the session
\* reference is retained
C32_ToggleVoiceContained ==
  [][/\ ~voice'.raised
     /\ NotReadyClick =>
          /\ voice'.status = "Not Ready"
          /\ voice'.sessions = voice.sessions
          /\ voice'.conversation = voice.conversation
     /\ \A i \in SessionIds :
          /\ StartRejected(i) =>
               /\ voice'.conversation = 0
               /\ ~voice'.isActive
               /\ Unused(voice') # {} =>
                    \E j \in Unused(voice') :
                      ToggleVoice(voice').sessions[j].start = "pending"
          /\ EndRejected(i) =>
               /\ voice'.status = "Error"
               /\ voice'.conversation = voice.conversation
               /\ voice'.sessions[i].start = "resolved"]_vars

\* endSession has failed on the live first session: the status line says
\* Error and the controls still hold the session
C32_Witness ==
  /\ voice.status = "Error"
  /\ voice.conversation = 1
  /\ voice.isActive
  /\ voice.sessions[1].start = "resolved"
  /\ ~voice.sessions[1].ended
  /\ ~voice.sessions[1].endPending

\* a session whose start is awaited, or that was started and is not over:
\* endSession has not resolved on it and onDisconnect has not fired for it
PendingOrLive(v, i) ==
  \/ v.sessions[i].start = "pending"
  \/ /\ v.sessions[i].start = "resolved"
     /\ ~v.sessions[i].ended
     /\ v.sessions[i].connect # "disconnected"

\* a step in which startSession was called for session j
StartCalled(j) ==
  voice.sessions[j].start = "none" /\ voice'.sessions[j].start = "pending"

\* C34: at most one voice session is pending or live at any time:
\* startSession is never called while an earlier startSession is pending or a
\* started session has not been ended, whatever the interleaving of clicks,
\* settlements of startSession and endSession, onConnect and onDisconnect
C34_OneSessionAtATime ==
  [][\A j \in SessionIds :
       StartCalled(j) => \A i \in SessionIds \ {j} : ~PendingOrLive(voice, i)]_vars

\* session i is over: endSession has resolved on it or onDisconnect has fired
Over(i) == voice.sessions[i].ended \/ voice.sessions[i].connect = "disconnected"

\* C35: once the user has started a voice session, onConnect has fired for
\* it and startSession has resolved, the router eventually becomes Bound to
\* that session (unless the session is over first), whatever the order of
\* onConnect, the firing of its timer and the resolution of startSession
C35_EventuallyBound ==
  \A i \in SessionIds :
    (voice.sessions[i].start = "resolved" /\ voice.sessions[i].connect = "connected")
      ~> ((voice.bound = i /\ conversation.bound) \/ Over(i))

\* the user hung up or onDisconnect fired, and no session is pending or live
NoSessionActive(v) ==
  /\ \E i \in SessionIds : v.sessions[i].ended \/ v.sessions[i].connect = "disconnected"
  /\ \A i \in SessionIds : ~PendingOrLive(v, i)

\* C36: whenever no voice session is active (the user hung up through
\* toggleVoice, or onDisconnect fired) the router is Unbound, so that text
\* submitted through the chat form is answered with the "Voice session not
\* active" notice and no send method of the ended session is invoked
C36_UnboundAfterSession ==
  [][/\ NoSessionActive(voice') => ~conversation'.bound
     /\ (FormStep /\ NoSessionActive(voice)) =>
          /\ sent' = sent
          /\ lastChat'.op = "onSubmit"
          /\ display' = Append(display, [role |-> "system", content |-> NotActive,
                                         timestamp |-> Date(now)])]_vars

====
